---- MODULE Spec2Model ----
(***************************************************************************)
(* A model of the command line parser of monet-explorer                    *)
(* (protocol_doc/monet-explorer/CommandLine.hpp) as driven by main.cpp:    *)
(* the Argument Registry and Value Store (Helper::ArgumentAccumulator),    *)
(* the definition calls (Parser::Option, Parser::Operand,                  *)
(* ArgumentSpecifier::Int/String/Double, Parser::RestrictOperands) and     *)
(* Parser::Parse, one step per iteration of its token loop.                *)
(*                                                                         *)
(* Text is modelled byte by byte: a string is a sequence of one-character  *)
(* strings.  An argv element is a C string: a buffer that ends with NUL    *)
(* and a pointer into it, because Parser::Trim moves the pointer and       *)
(* writes NUL bytes in place.                                              *)
(*                                                                         *)
(* The module also follows Parser::ColumnFormat (SpecColumns) and the      *)
(* server challenge of the MAPI login, ServerChallenge.hpp                 *)
(* (SpecChallenge).                                                        *)
(***************************************************************************)
EXTENDS Integers, Sequences, FiniteSets, TLC

(***************************************************************************)
(* Bounds of the model.                                                    *)
(***************************************************************************)
\* the most definition calls made before Parse
MaxDefs == 3
\* the most tokens after the program name in an enumerated argument vector
MaxArgs == 2
\* the most pieces (letters, blanks, soft hyphens, attribute markers, ESC
\* bytes, UTF-8 characters) of an enumerated column text
MaxPieces == 4
\* the most pieces of an enumerated text of a call with two columns
MaxShortPieces == 2
\* the most pieces of an enumerated text of attribute sequences
MaxAttributePieces == 3
\* the most pieces of an enumerated text of letters, blanks and the markers
\* of bold and of no attribute
MaxReopenPieces == 5
\* the widest column of an enumerated one-column call of ColumnFormat
MaxLimit == 3
\* the most rows ColumnFormat is followed for
MaxRows == 6

(***************************************************************************)
(* Bytes and strings.                                                      *)
(***************************************************************************)
NUL == "NUL"
TAB == "\t"
LF == "\n"

Digits == <<"0", "1", "2", "3", "4", "5", "6", "7", "8", "9">>

IsDigit(c) == \E k \in 1..10 : Digits[k] = c

DigitVal(c) == (CHOOSE k \in 1..10 : Digits[k] = c) - 1

\* ESC ('\033') and the non-breaking space of FormatLine ('\035')
ESC == "ESC"
GS == "GS"

\* Bytes of UTF-8 text, by the bit tests of FormatLine: continuation bytes
\* ((c & 0xC0) == 0x80) and the lead bytes of characters of two
\* ((c & 0xE0) == 0xC0), three ((c & 0xF0) == 0xE0) and four
\* ((c & 0xF8) == 0xF0) bytes.
Utf8Continuation == {"0xA9", "0x82", "0xAC"}
Utf8Lead2 == {"0xC3"}
Utf8Lead3 == {"0xE2"}
Utf8Lead4 == {"0xF0"}
HighBytes == Utf8Continuation \cup Utf8Lead2 \cup Utf8Lead3 \cup Utf8Lead4

\* isprint() of <ctype.h> on the bytes the model uses: NUL, TAB, LF, ESC and GS
\* are control characters, and no byte above 0x7F is printable in the "C"
\* locale the program runs in (it never calls setlocale); every other byte
\* of the model is printable.
IsPrint(c) == c \notin {NUL, TAB, LF, ESC, GS} \cup HighBytes

\* std::string(n, c)
Rep(c, n) == [k \in 1..n |-> c]

\* isspace() of <ctype.h> on the bytes the model uses.
IsSpace(c) == c \in {" ", TAB, LF}

\* s without its first n bytes (pointer arithmetic "s + n" on a C string).
Drop(s, n) == IF n >= Len(s) THEN <<>> ELSE SubSeq(s, n + 1, Len(s))

RECURSIVE StripLeadingZeros(_)
StripLeadingZeros(d) ==
    IF d # <<>> /\ Head(d) = "0" THEN StripLeadingZeros(Tail(d)) ELSE d

RECURSIVE StripTrailingZeros(_)
StripTrailingZeros(d) ==
    IF d # <<>> /\ d[Len(d)] = "0"
    THEN StripTrailingZeros(SubSeq(d, 1, Len(d) - 1))
    ELSE d

\* the longest prefix of s made of decimal digits
RECURSIVE DigitRun(_)
DigitRun(s) ==
    IF s # <<>> /\ IsDigit(Head(s)) THEN <<Head(s)>> \o DigitRun(Tail(s)) ELSE <<>>

\* the number of leading white-space bytes strtol and strtod skip
RECURSIVE SpaceRun(_)
SpaceRun(s) ==
    IF s # <<>> /\ IsSpace(Head(s)) THEN 1 + SpaceRun(Tail(s)) ELSE 0

\* a < b for two digit strings of the same length
RECURSIVE DigitsLess(_, _)
DigitsLess(a, b) ==
    IF a = <<>> THEN FALSE
    ELSE IF Head(a) # Head(b) THEN DigitVal(Head(a)) < DigitVal(Head(b))
    ELSE DigitsLess(Tail(a), Tail(b))

\* magnitude a > magnitude b, both without leading zeros
DigitsGreater(a, b) ==
    \/ Len(a) > Len(b)
    \/ Len(a) = Len(b) /\ DigitsLess(b, a)

(***************************************************************************)
(* errno and the C conversions used by ArgumentAccumulator::SetValue.      *)
(***************************************************************************)
ENone == "0"
ERANGE == "ERANGE"
EOTHER == "EOTHER"
ErrnoValues == {ENone, ERANGE, EOTHER}

\* LONG_MAX and -LONG_MIN of the 64-bit long that strtol returns
LongMaxDigits ==
    <<"9","2","2","3","3","7","2","0","3","6","8","5","4","7","7","5","8","0","7">>
LongMinDigits ==
    <<"9","2","2","3","3","7","2","0","3","6","8","5","4","7","7","5","8","0","8">>

\* The low 32 bits of a decimal magnitude, as two 16-bit limbs <<hi, lo>>.
RECURSIVE Low32(_, _)
Low32(d, acc) ==
    IF d = <<>> THEN acc
    ELSE LET lo == acc[2] * 10 + DigitVal(Head(d))
             hi == acc[1] * 10 + (lo \div 65536)
         IN  Low32(Tail(d), <<hi % 65536, lo % 65536>>)

\* The 32-bit int with the given bit pattern (two's complement).
LimbsToInt(l) ==
    IF l[1] >= 32768 THEN (l[1] - 65536) * 65536 + l[2] ELSE l[1] * 65536 + l[2]

\* 0 - x in 32-bit two's complement
NegInt32(x) == IF x = -2147483647 - 1 THEN x ELSE 0 - x

\* strtol, the value of the digits mag (no leading zeros): out of the range
\* of long it is LONG_MAX or LONG_MIN with ERANGE; "int result = ..." keeps
\* the low 32 bits of the long.
StrtolValue(neg, mag) ==
    LET lim  == IF neg THEN LongMinDigits ELSE LongMaxDigits
        over == DigitsGreater(mag, lim)
        low  == LimbsToInt(Low32(IF over THEN lim ELSE mag, <<0, 0>>))
    IN  [result |-> IF neg THEN NegInt32(low) ELSE low, erange |-> over]

StrtolResult(end, v) == [end |-> end, result |-> v.result, erange |-> v.erange]

\* strtol on the digit run that follows skipped bytes of white space and sign
StrtolRun(skipped, neg, run) ==
    IF run = <<>>
    THEN [end |-> 0, result |-> 0, erange |-> FALSE]
    ELSE StrtolResult(skipped + Len(run), StrtolValue(neg, StripLeadingZeros(run)))

\* strtol on the input s that follows ws bytes of white space
StrtolSign(ws, s) ==
    LET signed == s # <<>> /\ Head(s) \in {"+", "-"}
    IN  StrtolRun(ws + (IF signed THEN 1 ELSE 0), s # <<>> /\ Head(s) = "-",
                  DigitRun(IF signed THEN Tail(s) ELSE s))

\* "int result = strtol(value, &endPtr, 10)".  end is the number of bytes
\* before *endPtr, erange whether strtol sets errno to ERANGE.
Strtol(s) == StrtolSign(SpaceRun(s), Drop(s, SpaceRun(s)))

(***************************************************************************)
(* A double is modelled by its decimal expansion: sign, integer digits     *)
(* without leading zeros, fraction digits without trailing zeros.  Two     *)
(* decimals of at most 15 significant digits are the same double exactly   *)
(* when they are the same decimal.                                         *)
(***************************************************************************)
MkDouble(neg, ip, fp) ==
    LET i == StripLeadingZeros(ip)
        f == StripTrailingZeros(fp)
    IN  [neg |-> neg /\ (i # <<>> \/ f # <<>>), ip |-> i, fp |-> f]

RECURSIVE NatDigits(_)
NatDigits(n) ==
    IF n = 0 THEN <<>> ELSE NatDigits(n \div 10) \o <<Digits[(n % 10) + 1]>>

RECURSIVE DigitsNat(_, _)
DigitsNat(d, acc) ==
    IF d = <<>> THEN acc ELSE DigitsNat(Tail(d), acc * 10 + DigitVal(Head(d)))

RECURSIVE Zeros(_)
Zeros(n) == IF n <= 0 THEN <<>> ELSE <<"0">> \o Zeros(n - 1)

\* int -> double (exact).  INT_MIN is not used by the model.
IntToDouble(n) == MkDouble(n < 0, NatDigits(IF n < 0 THEN 0 - n ELSE n), <<>>)

\* double -> int: the fraction is discarded (truncation toward zero).  The
\* model only converts doubles whose integer part has at most 9 digits.
DoubleToInt(d) ==
    LET m == DigitsNat(d.ip, 0) IN IF d.neg THEN 0 - m ELSE m

\* 0.a < 0.b for two digit strings
RECURSIVE FracLess(_, _)
FracLess(a, b) ==
    IF b = <<>> THEN FALSE
    ELSE IF a = <<>> THEN StripLeadingZeros(b) # <<>>
    ELSE IF Head(a) # Head(b) THEN DigitVal(Head(a)) < DigitVal(Head(b))
    ELSE FracLess(Tail(a), Tail(b))

\* DBL_MAX = 0.17976931348623157e309 and DBL_MIN = 0.22250738585072014e-307
DblMaxDigits ==
    <<"1","7","9","7","6","9","3","1","3","4","8","6","2","3","1","5","7">>
DblMinDigits ==
    <<"2","2","2","5","0","7","3","8","5","8","5","0","7","2","0","1","4">>

\* strtod, the value of the decimal (ipart . frac) * 10^e.  With sig the
\* digits from the first non-zero one, the value is 0.sig * 10^m.  glibc
\* sets ERANGE on overflow and when the result is below the smallest normal
\* double.
StrtodRange(sig, m) ==
    /\ sig # <<>>
    /\ \/ m > 309
       \/ m = 309 /\ FracLess(DblMaxDigits, sig)
       \/ m < -307
       \/ m = -307 /\ FracLess(sig, DblMinDigits)

\* the double (all) * 10^(p - Len(all)): the decimal point after p digits
StrtodShift(neg, all, p) ==
    IF p >= Len(all) THEN MkDouble(neg, all \o Zeros(p - Len(all)), <<>>)
    ELSE IF p <= 0 THEN MkDouble(neg, <<>>, Zeros(0 - p) \o all)
    ELSE MkDouble(neg, SubSeq(all, 1, p), SubSeq(all, p + 1, Len(all)))

StrtodResult(end, erange, neg, all, p) ==
    [end |-> end, erange |-> erange,
     result |-> IF erange THEN MkDouble(FALSE, <<>>, <<>>) ELSE StrtodShift(neg, all, p)]

\* strtod, the exponent: s is the input after the mantissa ipart . frac,
\* of which end bytes have been read.  An 'e' that no digit follows is not
\* part of the number.  An exponent of five digits and more is far outside
\* the range of a double and is capped.
StrtodExpDigits(end, neg, ipart, frac, eneg, erun) ==
    LET emag == StripLeadingZeros(erun)
        eabs == IF Len(emag) > 4 THEN 9999 ELSE DigitsNat(emag, 0)
        e    == IF eneg THEN 0 - eabs ELSE eabs
    IN  StrtodResult(end + Len(erun),
                     StrtodRange(StripLeadingZeros(ipart \o frac),
                                 Len(StripLeadingZeros(ipart \o frac)) - Len(frac) + e),
                     neg, ipart \o frac, Len(ipart) + e)

StrtodExponent(end, neg, ipart, frac, s) ==
    LET body  == IF s # <<>> /\ Head(s) \in {"e", "E"} THEN Tail(s) ELSE <<>>
        esign == body # <<>> /\ Head(body) \in {"+", "-"}
        erun  == DigitRun(IF esign THEN Tail(body) ELSE body)
    IN  IF erun = <<>>
        THEN StrtodExpDigits(end, neg, ipart, frac, FALSE, <<>>)
        ELSE StrtodExpDigits(end + 1 + (IF esign THEN 1 ELSE 0), neg, ipart, frac,
                             Head(body) = "-", erun)

\* strtod, the fraction: s is the input after the integer digits ipart
StrtodFraction(end, neg, ipart, s) ==
    LET fpart  == IF s # <<>> /\ Head(s) = "." THEN DigitRun(Tail(s)) ELSE <<>>
        usedot == s # <<>> /\ Head(s) = "." /\ (ipart # <<>> \/ fpart # <<>>)
    IN  IF ipart = <<>> /\ fpart = <<>>
        THEN [end |-> 0, erange |-> FALSE, result |-> MkDouble(FALSE, <<>>, <<>>)]
        ELSE IF usedot
        THEN StrtodExponent(end + Len(ipart) + 1 + Len(fpart), neg, ipart, fpart,
                            Drop(s, 1 + Len(fpart)))
        ELSE StrtodExponent(end + Len(ipart), neg, ipart, <<>>, s)

\* strtod on the input s that follows end bytes of white space and sign
StrtodDigits(end, neg, s) ==
    StrtodFraction(end, neg, DigitRun(s), Drop(s, Len(DigitRun(s))))

StrtodSign(ws, s) ==
    LET signed == s # <<>> /\ Head(s) \in {"+", "-"}
    IN  StrtodDigits(ws + (IF signed THEN 1 ELSE 0), s # <<>> /\ Head(s) = "-",
                     IF signed THEN Tail(s) ELSE s)

\* "double result = strtod(value, &endPtr)" for decimal input
\* [ws][sign]digits[.digits][(e|E)[sign]digits]; end is the number of bytes
\* before *endPtr, erange whether strtod sets errno to ERANGE.  The
\* hexadecimal, INF and NAN forms are not among the tokens of the model.
Strtod(s) == StrtodSign(SpaceRun(s), Drop(s, SpaceRun(s)))

(***************************************************************************)
(* Helper::CommandLineArg: one definition.  valueName and description are  *)
(* read by GenerateDoc only and are left out.                              *)
(***************************************************************************)
ClassArgument == "Argument"
ClassOption == "Option"
ClassOperand == "Operand"

TypeString == "String"
TypeInt == "Int"
TypeDouble == "Double"
TypeBoolean == "Boolean"

\* letter(0): the definition has no one-letter name
NoLetter == NUL

MkArg(name, letter, argClass, argType, optional, stringDefault, intDefault, doubleDefault) ==
    [name |-> name, letter |-> letter, argClass |-> argClass, argType |-> argType,
     optional |-> optional, stringDefault |-> stringDefault,
     intDefault |-> intDefault, doubleDefault |-> doubleDefault]

ZeroDouble == MkDouble(FALSE, <<>>, <<>>)

EmptyArg == MkArg(<<>>, NoLetter, ClassArgument, TypeString, FALSE, <<>>, 0, ZeroDouble)

OperandArg(name) ==
    MkArg(name, NoLetter, ClassOperand, TypeString, FALSE, <<>>, 0, ZeroDouble)

OptionArg(name, letter) ==
    MkArg(name, letter, ClassOption, TypeBoolean, FALSE, <<>>, 0, ZeroDouble)

MandatoryArg(name, letter, argType) ==
    MkArg(name, letter, ClassArgument, argType, FALSE, <<>>, 0, ZeroDouble)

IntDefaultArg(name, letter, intDefault) ==
    MkArg(name, letter, ClassArgument, TypeInt, TRUE, <<>>, intDefault, ZeroDouble)

StringDefaultArg(name, letter, stringDefault) ==
    MkArg(name, letter, ClassArgument, TypeString, TRUE, stringDefault, 0, ZeroDouble)

DoubleDefaultArg(name, letter, doubleDefault) ==
    MkArg(name, letter, ClassArgument, TypeDouble, TRUE, <<>>, 0, doubleDefault)

\* "int GetDoubleDefault() const { return this->doubleDefault; }": the
\* declared return type is int, so the double is converted to int.
GetDoubleDefault(arg) == DoubleToInt(arg.doubleDefault)

(***************************************************************************)
(* Helper::ArgumentAccumulator: the Registry and the Value Store.  A map   *)
(* is a function whose domain is the set of its keys.                      *)
(***************************************************************************)
EmptyMap == <<>>

\* std::map::insert / std::unordered_map::insert: no effect when the key is
\* already present.
MapInsert(m, k, v) == IF k \in DOMAIN m THEN m ELSE (k :> v) @@ m

NewAccumulator ==
    [restrictOperands |-> FALSE, executableName |-> <<>>,
     argsByName |-> EmptyMap, argsByLetter |-> EmptyMap, operands |-> <<>>,
     stringValues |-> EmptyMap, intValues |-> EmptyMap, doubleValues |-> EmptyMap,
     optionNames |-> {}, operandValues |-> <<>>]

\* "Store default" at the end of AddArg
StoreDefault(a, arg) ==
    IF ~arg.optional THEN a
    ELSE IF arg.argType = TypeDouble
         THEN [a EXCEPT !.doubleValues =
                  MapInsert(@, arg.name, IntToDouble(GetDoubleDefault(arg)))]
    ELSE IF arg.argType = TypeInt
         THEN [a EXCEPT !.intValues = MapInsert(@, arg.name, arg.intDefault)]
    ELSE [a EXCEPT !.stringValues = MapInsert(@, arg.name, arg.stringDefault)]

\* AddArg without its duplicate-letter check: a variant the duplicate rule
\* must tell apart from the code
AddArg_LetterUnchecked(a, arg) ==
    IF arg.name \in DOMAIN a.argsByName
    THEN [accu |-> a, threw |-> TRUE]
    ELSE LET a1 == [a EXCEPT !.argsByName = MapInsert(@, arg.name, arg)]
             a2 == IF arg.argClass = ClassOperand
                   THEN [a1 EXCEPT !.operands = Append(@, arg)]
                   ELSE a1
             a3 == IF arg.letter # NoLetter
                   THEN [a2 EXCEPT !.argsByLetter = MapInsert(@, arg.letter, arg)]
                   ELSE a2
         IN  [accu |-> StoreDefault(a3, arg), threw |-> FALSE]

\* ArgumentAccumulator::AddArg: the accumulator after the call and whether
\* the call threw.  The duplicate-letter check runs after the definition has
\* been entered under its name (and in the operand list).
AddArg(a, arg) ==
    IF arg.name \in DOMAIN a.argsByName
    THEN [accu |-> a, threw |-> TRUE]
    ELSE LET a1 == [a EXCEPT !.argsByName = MapInsert(@, arg.name, arg)]
             a2 == IF arg.argClass = ClassOperand
                   THEN [a1 EXCEPT !.operands = Append(@, arg)]
                   ELSE a1
         IN  IF arg.letter # NoLetter /\ arg.letter \in DOMAIN a2.argsByLetter
             THEN [accu |-> a2, threw |-> TRUE]
             ELSE LET a3 == IF arg.letter # NoLetter
                            THEN [a2 EXCEPT !.argsByLetter = MapInsert(@, arg.letter, arg)]
                            ELSE a2
                  IN  [accu |-> StoreDefault(a3, arg), threw |-> FALSE]

(***************************************************************************)
(* C strings of the argument vector and Parser::Trim.                      *)
(***************************************************************************)
\* an argv element as the process receives it: the bytes of s, then NUL
CString(s) == [buf |-> s \o <<NUL>>, ptr |-> 0]

\* the string a char* denotes: the bytes from the pointer up to the next NUL
RECURSIVE UpToNul(_)
UpToNul(b) ==
    IF b = <<>> \/ Head(b) = NUL THEN <<>> ELSE <<Head(b)>> \o UpToNul(Tail(b))

StringOf(a) == UpToNul(Drop(a.buf, a.ptr))

\* left_trim: advance the pointer over non-printable bytes and spaces
RECURSIVE LeftTrim(_)
LeftTrim(a) ==
    LET c == a.buf[a.ptr + 1]
    IN  IF c = NUL THEN a
        ELSE IF ~IsPrint(c) \/ c = " " THEN LeftTrim([a EXCEPT !.ptr = @ + 1])
        ELSE a

\* right_trim, entered with end one past the byte to look at.  The test of
\* the source reads the FIRST byte (**str) where it compares with a space.
RECURSIVE RightTrim(_, _)
RightTrim(a, end) ==
    LET e == end - 1
    IN  IF ~IsPrint(a.buf[e + 1]) \/ a.buf[a.ptr + 1] = " "
        THEN LET a1 == [a EXCEPT !.buf[e + 1] = NUL]
             IN  IF e > a.ptr THEN RightTrim(a1, e) ELSE [arg |-> a1, length |-> 0]
        ELSE [arg |-> a, length |-> (e - a.ptr) + 1]

\* Parser::Trim: the argv element after the call and the returned length
Trim(a) ==
    LET a1 == LeftTrim(a)
    IN  IF a1.buf[a1.ptr + 1] = NUL
        THEN [arg |-> a1, length |-> 0]
        ELSE RightTrim(a1, a1.ptr + Len(StringOf(a1)))

(***************************************************************************)
(* Error kinds: one per std::runtime_error message of the source.          *)
(***************************************************************************)
NoError == "none"
\* "Two different arguments have the same (one-letter) name"
DuplicateDefinition == "DuplicateDefinition"
\* "Invalid argument: --<name>"
UnknownArgument == "UnknownArgument"
\* "Invalid argument letter: '<c>'."
UnknownArgumentLetter == "UnknownArgumentLetter"
\* "Syntax error."
SyntaxError == "SyntaxError"
\* "When multiple options are provided after a single dash, only one ..."
MultipleArgumentsInCluster == "MultipleArgumentsInCluster"
\* "The maximal number of operands is restricted to <n>."
TooManyOperands == "TooManyOperands"
\* "Invalid integer value."
InvalidInteger == "InvalidInteger"
\* "Integer value out of range."
IntegerOutOfRange == "IntegerOutOfRange"
\* "Invalid Double value."
InvalidDouble == "InvalidDouble"
\* "Double value out of range."
DoubleOutOfRange == "DoubleOutOfRange"

(***************************************************************************)
(* ArgumentAccumulator::SetValue and Parser::AddOperand.                   *)
(***************************************************************************)
\* The Int branch of SetValue after "int result = strtol(...)" returned r.
\* errno is read, and nothing cleared it before the call.
SetIntValue(a, en, arg, value, r) ==
    LET en1 == IF r.erange THEN ERANGE ELSE en
    IN  IF en1 = ERANGE
        THEN [accu |-> a, errno |-> en1, threw |-> IntegerOutOfRange]
        ELSE IF r.end < Len(value) \/ en1 # ENone
        THEN [accu |-> a, errno |-> en1, threw |-> InvalidInteger]
        ELSE [accu  |-> [a EXCEPT !.intValues = MapInsert(@, arg.name, r.result)],
              errno |-> en1, threw |-> NoError]

\* The Double branch of SetValue after "double result = strtod(...)"
SetDoubleValue(a, en, arg, value, r) ==
    LET en1 == IF r.erange THEN ERANGE ELSE en
    IN  IF en1 = ERANGE
        THEN [accu |-> a, errno |-> en1, threw |-> DoubleOutOfRange]
        ELSE IF r.end < Len(value) \/ en1 # ENone
        THEN [accu |-> a, errno |-> en1, threw |-> InvalidDouble]
        ELSE [accu  |-> [a EXCEPT !.doubleValues = MapInsert(@, arg.name, r.result)],
              errno |-> en1, threw |-> NoError]

\* AddOperand putting the operand in front: a variant the order of the
\* operands must tell apart from the code
AddOperand_InFront(a, value) ==
    IF Len(a.operandValues) > Len(a.operands) /\ a.restrictOperands
    THEN [accu |-> a, threw |-> TooManyOperands]
    ELSE [accu |-> [a EXCEPT !.operandValues = <<value>> \o @], threw |-> NoError]

\* ArgumentAccumulator::SetValue: the accumulator and errno after the call
\* and the error thrown, if any
SetValue(a, en, arg, value) ==
    IF arg.argType = TypeInt THEN SetIntValue(a, en, arg, value, Strtol(value))
    ELSE IF arg.argType = TypeDouble THEN SetDoubleValue(a, en, arg, value, Strtod(value))
    ELSE [accu  |-> [a EXCEPT !.stringValues = MapInsert(@, arg.name, value)],
          errno |-> en, threw |-> NoError]

AddOperand(a, value) ==
    IF Len(a.operandValues) > Len(a.operands) /\ a.restrictOperands
    THEN [accu |-> a, threw |-> TooManyOperands]
    ELSE [accu |-> [a EXCEPT !.operandValues = Append(@, value)], threw |-> NoError]

(***************************************************************************)
(* Parser::ThrowError: the window of the line that is displayed, the       *)
(* column of the caret and the widths of the dash ruler under it.          *)
(***************************************************************************)
\* "this->screenWidth = 80" of the constructor
screenWidth == 80

\* the bits of the significand of a double
DoubleBits == 53

\* two thirds of the window rounded up
MaxHead_RoundedUp(windowSize) == (2 * windowSize + 2) \div 3

\* "(int)(ratio * (float)windowSize)" with ratio = 0.666
MaxHead(windowSize) == (666 * windowSize) \div 1000

Min(a, b) == IF a < b THEN a ELSE b

\* start, head and length of the four layout cases, size being line.size()
ThrowErrorWindow(size, position, windowSize, maxHead) ==
    IF position < maxHead \/ size < windowSize
    THEN [start |-> 0, head |-> position, length |-> Min(windowSize, size)]
    ELSE IF size - position < windowSize - maxHead
    THEN [start |-> size - windowSize, head |-> position - (size - windowSize),
          length |-> windowSize]
    ELSE [start |-> position - maxHead, head |-> maxHead, length |-> windowSize]

\* line.substr(start, length), start being at most line.size()
Substr(l, start, length) == SubSeq(l, start + 1, Min(Len(l), start + length))

\* What ThrowError writes for the window w: the displayed text, the caret
\* after head + 1 spaces, the ruler of head + 1 dashes, '|' and
\* windowSize - head - 2 dashes.  std::string(n, '-') with a negative n
\* throws std::length_error in place of the diagnostic.
ThrowErrorText(message, l, w, windowSize) ==
    [message    |-> message,
     start      |-> w.start,
     length     |-> w.length,
     text       |-> Substr(l, w.start, w.length),
     caret      |-> w.head + 1,
     rulerLeft  |-> w.head + 1,
     rulerRight |-> windowSize - w.head - 2,
     exception  |-> IF windowSize - w.head - 2 < 0 THEN "length_error"
                    ELSE "runtime_error"]

ThrowError(message, l, position) ==
    ThrowErrorText(message, l,
                   ThrowErrorWindow(Len(l), position, screenWidth, MaxHead(screenWidth)),
                   screenWidth)

\* no diagnostic was written
NoText ==
    [message |-> NoError, start |-> 0, length |-> 0, text |-> <<>>, caret |-> 0,
     rulerLeft |-> 0, rulerRight |-> 0, exception |-> "none"]

(***************************************************************************)
(* Parser::FormatLine: the next line of a column.  s holds the locals of   *)
(* the function and its two reference parameters: cursor (a byte offset    *)
(* into the text, from 0), charCount, mb_remain, lastWord,                 *)
(* lastWordCharCount, foundSoftHyphen, lastWordPosition,                   *)
(* textAttributeWasSetInLastWord, textAttribute and out (the bytes         *)
(* appended to the stream by this call).                                   *)
(***************************************************************************)
\* the third byte of the sequences ESC [ <digit> m that FormatLine takes as
\* text attributes: '0' to '8' without '3' and '6'
AttributeDigits == {"0", "1", "2", "4", "5", "7", "8"}

\* "\033[" << value << 'm'
AttributeMarker(value) == <<ESC, "[", Digits[value + 1], "m">>

\* the test of the word breakers: not printable or a space, and not the
\* non-breaking space
IsBreaker(c) == (~IsPrint(c) \/ c = " ") /\ c # GS

\* the left-trim loop: the cursor skips breakers and GS, but not ESC
RECURSIVE LeftTrimText(_, _)
LeftTrimText(text, cursor) ==
    IF cursor < Len(text) /\ (~IsPrint(text[cursor + 1]) \/ text[cursor + 1] = " ")
                          /\ text[cursor + 1] # ESC
    THEN LeftTrimText(text, cursor + 1)
    ELSE cursor

\* the test of the VT100 branch at the byte under the cursor
IsAttribute(text, cursor) ==
    /\ text[cursor + 1] = ESC
    /\ cursor + 3 < Len(text)
    /\ text[cursor + 2] = "["
    /\ text[cursor + 4] = "m"
    /\ text[cursor + 3] \in AttributeDigits

\* the label fill_remainder_with_spaces
FillRemainder(limit, s) ==
    IF limit > s.charCount
    THEN [s EXCEPT !.out = @ \o Rep(" ", limit - s.charCount)]
    ELSE s

\* "out << lastWord.str(); charCount += lastWordCharCount;"
KeepWord(s) ==
    [s EXCEPT !.out = @ \o s.lastWord, !.charCount = @ + s.lastWordCharCount]

\* A variant that drops the word without writing the hyphen, which the
\* rendering of soft hyphens must tell apart from the code.
LimitReached_NoHyphen(limit, softHypen, s, c) ==
    IF (c # softHypen /\ IsBreaker(c)) \/ s.lastWordPosition = 0
    THEN KeepWord(s)
    ELSE FillRemainder(limit, [s EXCEPT !.cursor = s.lastWordPosition])

\* the body of "charCount + lastWordCharCount + 1 > limit": the two returns
\* that keep the word and leave the cursor on c, and the drop of the word
LimitReached(limit, softHypen, s, c) ==
    IF (c # softHypen /\ IsBreaker(c)) \/ s.lastWordPosition = 0
    THEN KeepWord(s)
    ELSE FillRemainder(limit,
             [s EXCEPT !.out = IF s.foundSoftHyphen THEN Append(@, "-") ELSE @,
                       !.cursor = s.lastWordPosition])

\* A variant that counts an attribute marker as a character, which the
\* handling of attribute markers must tell apart from the code.
FormatByte_MarkerCounted(text, softHypen, s, c) ==
    IF c \in Utf8Lead2 \cup Utf8Lead3 \cup Utf8Lead4
    THEN [s EXCEPT !.mb_remain = IF c \in Utf8Lead2 THEN 1
                                 ELSE IF c \in Utf8Lead3 THEN 2 ELSE 3,
                   !.lastWord = Append(@, c),
                   !.lastWordCharCount = @ + 1,
                   !.cursor = @ + 1]
    ELSE IF IsAttribute(text, s.cursor)
    THEN [s EXCEPT !.textAttribute =
                       IF s.textAttributeWasSetInLastWord THEN @
                       ELSE DigitVal(text[s.cursor + 3]),
                   !.textAttributeWasSetInLastWord = TRUE,
                   !.lastWord = @ \o AttributeMarker(DigitVal(text[s.cursor + 3])),
                   !.lastWordCharCount = @ + 1,
                   !.cursor = @ + 4]
    ELSE IF softHypen # NUL /\ c = softHypen
    THEN [s EXCEPT !.foundSoftHyphen = TRUE,
                   !.lastWordPosition = s.cursor,
                   !.charCount = @ + s.lastWordCharCount,
                   !.lastWordCharCount = 0,
                   !.out = @ \o s.lastWord,
                   !.lastWord = <<>>,
                   !.textAttributeWasSetInLastWord = FALSE,
                   !.cursor = @ + 1]
    ELSE IF IsBreaker(c)
    THEN [s EXCEPT !.foundSoftHyphen = FALSE,
                   !.lastWordPosition = s.cursor,
                   !.charCount = @ + s.lastWordCharCount,
                   !.lastWordCharCount = 1,
                   !.out = @ \o s.lastWord,
                   !.lastWord = <<" ">>,
                   !.textAttributeWasSetInLastWord = FALSE,
                   !.cursor = @ + 1]
    ELSE [s EXCEPT !.lastWord = Append(@, IF c = GS THEN " " ELSE c),
                   !.lastWordCharCount = @ + 1,
                   !.cursor = @ + 1]

\* the branches below the limit check for the byte c under the cursor, up
\* to the "cursor++" of the for loop
FormatByte(text, softHypen, s, c) ==
    IF c \in Utf8Lead2 \cup Utf8Lead3 \cup Utf8Lead4
    THEN [s EXCEPT !.mb_remain = IF c \in Utf8Lead2 THEN 1
                                 ELSE IF c \in Utf8Lead3 THEN 2 ELSE 3,
                   !.lastWord = Append(@, c),
                   !.lastWordCharCount = @ + 1,
                   !.cursor = @ + 1]
    ELSE IF IsAttribute(text, s.cursor)
    THEN [s EXCEPT !.textAttribute =
                       IF s.textAttributeWasSetInLastWord THEN @
                       ELSE DigitVal(text[s.cursor + 3]),
                   !.textAttributeWasSetInLastWord = TRUE,
                   !.lastWord = @ \o AttributeMarker(DigitVal(text[s.cursor + 3])),
                   !.cursor = @ + 4]
    ELSE IF softHypen # NUL /\ c = softHypen
    THEN [s EXCEPT !.foundSoftHyphen = TRUE,
                   !.lastWordPosition = s.cursor,
                   !.charCount = @ + s.lastWordCharCount,
                   !.lastWordCharCount = 0,
                   !.out = @ \o s.lastWord,
                   !.lastWord = <<>>,
                   !.textAttributeWasSetInLastWord = FALSE,
                   !.cursor = @ + 1]
    ELSE IF IsBreaker(c)
    THEN [s EXCEPT !.foundSoftHyphen = FALSE,
                   !.lastWordPosition = s.cursor,
                   !.charCount = @ + s.lastWordCharCount,
                   !.lastWordCharCount = 1,
                   !.out = @ \o s.lastWord,
                   !.lastWord = <<" ">>,
                   !.textAttributeWasSetInLastWord = FALSE,
                   !.cursor = @ + 1]
    ELSE [s EXCEPT !.lastWord = Append(@, IF c = GS THEN " " ELSE c),
                   !.lastWordCharCount = @ + 1,
                   !.cursor = @ + 1]

\* the for loop over the bytes of the text
RECURSIVE FormatLoop(_, _, _, _)
FormatLoop(text, limit, softHypen, s) ==
    IF s.cursor >= Len(text)
    THEN FillRemainder(limit, KeepWord(s))
    ELSE IF s.mb_remain > 0 /\ text[s.cursor + 1] \in Utf8Continuation
    THEN FormatLoop(text, limit, softHypen,
                    [s EXCEPT !.mb_remain = @ - 1,
                              !.lastWord = Append(@, text[s.cursor + 1]),
                              !.cursor = @ + 1])
    ELSE IF s.charCount + s.lastWordCharCount + 1 > limit
    THEN LimitReached(limit, softHypen, [s EXCEPT !.mb_remain = 0],
                      text[s.cursor + 1])
    ELSE FormatLoop(text, limit, softHypen,
                    FormatByte(text, softHypen, [s EXCEPT !.mb_remain = 0],
                               text[s.cursor + 1]))

\* the locals at the start of the loop: the attribute is restored and the
\* cursor is left-trimmed
FormatStart(text, cursor, textAttribute) ==
    [cursor |-> LeftTrimText(text, cursor), charCount |-> 0, mb_remain |-> 0,
     lastWord |-> <<>>, lastWordCharCount |-> 0, foundSoftHyphen |-> FALSE,
     lastWordPosition |-> 0, textAttributeWasSetInLastWord |-> FALSE,
     textAttribute |-> textAttribute, out |-> AttributeMarker(textAttribute)]

\* One call: the result holds the new cursor, the new textAttribute and the
\* bytes written to out.  A softHypen of 0 (NUL) disables the soft hyphen.
FormatLine(text, cursor, limit, softHypen, textAttribute) ==
    FormatLoop(text, limit, softHypen, FormatStart(text, cursor, textAttribute))

(***************************************************************************)
(* Parser::Parse: the body of the try block for one token.  st holds what  *)
(* the loop carries from token to token: accu, errno, expectArgValue and   *)
(* lastArg.  The result adds threw (the error kind, NoError when the body  *)
(* ends normally) and letterOffset (the "position += i" of the cluster     *)
(* loop).                                                                  *)
(***************************************************************************)
Outcome(st, threw, letterOffset) ==
    [accu |-> st.accu, errno |-> st.errno, expectArgValue |-> st.expectArgValue,
     lastArg |-> st.lastArg, threw |-> threw, letterOffset |-> letterOffset]

RECURSIVE ClusterLoop(_, _, _, _)

\* Variants of the cluster loop that the properties of clusters must tell
\* apart from the code: one that does not record the Argument it met, one
\* that leaves the cluster at its Argument letter, one that accepts a second
\* Argument letter.
ClusterLoop_LastArgNotSet(st, arg, k, foundArgument) ==
    IF k >= Len(arg) THEN Outcome(st, NoError, 0)
    ELSE IF arg[k + 1] \notin DOMAIN st.accu.argsByLetter
    THEN Outcome(st, UnknownArgumentLetter, k)
    ELSE IF st.accu.argsByLetter[arg[k + 1]].argClass = ClassOption
    THEN ClusterLoop([st EXCEPT !.accu.optionNames =
                         @ \cup {st.accu.argsByLetter[arg[k + 1]].name}],
                     arg, k + 1, foundArgument)
    ELSE IF foundArgument THEN Outcome(st, MultipleArgumentsInCluster, 0)
    ELSE ClusterLoop([st EXCEPT !.expectArgValue = TRUE], arg, k + 1, TRUE)

ClusterLoop_StopsAtArgument(st, arg, k, foundArgument) ==
    IF k >= Len(arg) THEN Outcome(st, NoError, 0)
    ELSE IF arg[k + 1] \notin DOMAIN st.accu.argsByLetter
    THEN Outcome(st, UnknownArgumentLetter, k)
    ELSE IF st.accu.argsByLetter[arg[k + 1]].argClass = ClassOption
    THEN ClusterLoop([st EXCEPT !.accu.optionNames =
                         @ \cup {st.accu.argsByLetter[arg[k + 1]].name}],
                     arg, k + 1, foundArgument)
    ELSE Outcome([st EXCEPT !.lastArg = st.accu.argsByLetter[arg[k + 1]],
                            !.expectArgValue = TRUE], NoError, 0)

ClusterLoop_SecondArgumentAccepted(st, arg, k, foundArgument) ==
    IF k >= Len(arg) THEN Outcome(st, NoError, 0)
    ELSE IF arg[k + 1] \notin DOMAIN st.accu.argsByLetter
    THEN Outcome(st, UnknownArgumentLetter, k)
    ELSE IF st.accu.argsByLetter[arg[k + 1]].argClass = ClassOption
    THEN ClusterLoop([st EXCEPT !.accu.optionNames =
                         @ \cup {st.accu.argsByLetter[arg[k + 1]].name}],
                     arg, k + 1, foundArgument)
    ELSE ClusterLoop([st EXCEPT !.lastArg = st.accu.argsByLetter[arg[k + 1]],
                                !.expectArgValue = TRUE], arg, k + 1, TRUE)

\* "for(int i = 1; i < length; i++)" over the letters after the dash
ClusterLoop(st, arg, k, foundArgument) ==
    IF k >= Len(arg) THEN Outcome(st, NoError, 0)
    ELSE LET c == arg[k + 1]
         IN  IF c \notin DOMAIN st.accu.argsByLetter
             THEN Outcome(st, UnknownArgumentLetter, k)
             ELSE LET item == st.accu.argsByLetter[c]
                  IN  IF item.argClass = ClassOption
                      THEN ClusterLoop(
                               [st EXCEPT !.accu.optionNames = @ \cup {item.name}],
                               arg, k + 1, foundArgument)
                      ELSE IF foundArgument
                      THEN Outcome(st, MultipleArgumentsInCluster, 0)
                      ELSE ClusterLoop(
                               [st EXCEPT !.lastArg = item, !.expectArgValue = TRUE],
                               arg, k + 1, TRUE)

LongName(st, arg) ==
    LET argName == Drop(arg, 2)
    IN  IF argName \notin DOMAIN st.accu.argsByName
        THEN Outcome(st, UnknownArgument, 0)
        ELSE LET item == st.accu.argsByName[argName]
             IN  IF item.argClass = ClassOption
                 THEN Outcome([st EXCEPT !.accu.optionNames = @ \cup {argName}], NoError, 0)
                 ELSE Outcome([st EXCEPT !.expectArgValue = TRUE, !.lastArg = item],
                              NoError, 0)

\* "this->AddOperand(arg)" returned r
OperandOutcome(st, r) == Outcome([st EXCEPT !.accu = r.accu], r.threw, 0)

OperandToken(st, arg) == OperandOutcome(st, AddOperand(st.accu, arg))

\* "this->accu.SetValue(lastArg, std::string(arg)); expectArgValue = false;"
ValueOutcome(st, r) ==
    IF r.threw # NoError
    THEN Outcome([st EXCEPT !.accu = r.accu, !.errno = r.errno], r.threw, 0)
    ELSE Outcome([st EXCEPT !.accu = r.accu, !.errno = r.errno,
                            !.expectArgValue = FALSE], NoError, 0)

ValueToken(st, arg) == ValueOutcome(st, SetValue(st.accu, st.errno, st.lastArg, arg))

\* the try block without the test for "--" alone, which then is an operand:
\* a variant the lookup errors must tell apart from the code
TryBody_DoubleDashIsOperand(st, arg, length) ==
    IF length = 0 THEN Outcome(st, NoError, 0)
    ELSE IF st.expectArgValue THEN ValueToken(st, arg)
    ELSE IF arg[1] = "-"
    THEN IF length > 1
         THEN IF arg[2] = "-"
              THEN IF length > 2 THEN LongName(st, arg)
                   ELSE OperandToken(st, arg)
              ELSE ClusterLoop(st, arg, 1, FALSE)
         ELSE OperandToken(st, arg)
    ELSE OperandToken(st, arg)

\* arg is the trimmed token, length its length as returned by Trim
TryBody(st, arg, length) ==
    IF length = 0 THEN Outcome(st, NoError, 0)
    ELSE IF st.expectArgValue THEN ValueToken(st, arg)
    ELSE IF arg[1] = "-"
    THEN IF length > 1
         THEN IF arg[2] = "-"
              THEN IF length > 2 THEN LongName(st, arg)
                   ELSE Outcome(st, SyntaxError, 0)
              ELSE ClusterLoop(st, arg, 1, FALSE)
         ELSE OperandToken(st, arg)
    ELSE OperandToken(st, arg)

(***************************************************************************)
(* Arguments::IsHelpRequested.                                             *)
(***************************************************************************)
HelpName == <<"h", "e", "l", "p">>

\* IsHelpRequested without the test for the activated "help" option: a
\* variant the help rule must tell apart from the code
IsHelpRequested_EmptyOnly(a) ==
    /\ Len(a.operands) < 1
    /\ Cardinality(a.optionNames) < 1
    /\ Cardinality(DOMAIN a.argsByName) < 1

IsHelpRequested(a) ==
    \/ /\ Len(a.operands) < 1
       /\ Cardinality(a.optionNames) < 1
       /\ Cardinality(DOMAIN a.argsByName) < 1
    \/ HelpName \in a.optionNames

(***************************************************************************)
(* The inputs of the model: the definitions the caller may register (those *)
(* of main.cpp, a mandatory variant of port in each type, and a definition *)
(* that reuses the letter of host) and the tokens of the command line.     *)
(* One-letter names are letters and '?', as in main.cpp, never '-'.        *)
(***************************************************************************)
HostName == <<"h", "o", "s", "t">>
PortName == <<"p", "o", "r", "t">>
NumberName == <<"n", "u", "m", "b", "e", "r">>
UserName == <<"u", "s", "e", "r">>
DatabaseName == <<"d", "a", "t", "a", "b", "a", "s", "e">>
FileTransferName == <<"f", "i", "l", "e", "-", "t", "r", "a", "n", "s", "f", "e", "r">>
TableName == <<"t", "a", "b", "l", "e">>

HostDefault == <<"1", "2", "7", ".", "0", ".", "0", ".", "1">>
PortDefault == 50000
\* 123.456
NumberDefault == MkDouble(FALSE, <<"1", "2", "3">>, <<"4", "5", "6">>)

OptionInputs == {<<HelpName, "?">>, <<FileTransferName, "t">>}
\* the operand of main.cpp and a second one
OperandInputs == {DatabaseName, TableName}
\* mandatory Arguments: port as an int or as a double, and user, which
\* reuses the letter of host
MandatoryInputs ==
    {<<PortName, "p", TypeInt>>, <<PortName, "p", TypeDouble>>,
     <<UserName, "h", TypeString>>}

ProgramName == <<"m", "e">>

Vocabulary ==
    { <<"-", "-", "p", "o", "r", "t">>,
      <<"-", "p">>,
      <<"5", "4", "3", "2">>,
      <<"a", "b", "c">>,
      <<"1", "2", "a", "b", "c">>,
      <<"9","9","9","9","9","9","9","9","9","9","9","9","9","9","9","9","9","9","9","9">>,
      <<"3", "0", "0", "0", "0", "0", "0", "0", "0", "0">>,
      <<"-", "-", "h", "e", "l", "p">>,
      <<"-", "-", "d", "a", "t", "a", "b", "a", "s", "e">>,
      <<"-", "t", "?">>,
      <<"-", "t", "p">>,
      <<"-", "p", "t">>,
      <<"-", "h", "p">>,
      <<"-", "p", "p">>,
      <<"-", "p", "t", "p">>,
      <<"-", "p", "p", "t">>,
      <<"-", "-">>,
      <<"m", "y", "d", "b">> }

\* the command line of the end-to-end example: -h 10.0.0.1 -p 5432 mydb
ExampleLine ==
    << <<"-", "h">>, <<"1", "0", ".", "0", ".", "0", ".", "1">>,
       <<"-", "p">>, <<"5", "4", "3", "2">>, <<"m", "y", "d", "b">> >>

RECURSIVE SeqsUpTo(_, _)
SeqsUpTo(S, n) ==
    IF n = 0 THEN {<<>>}
    ELSE LET shorter == SeqsUpTo(S, n - 1)
         IN  shorter \cup {Append(q, t) : q \in shorter, t \in S}

CommandLines == SeqsUpTo(Vocabulary, MaxArgs) \cup {ExampleLine}

\* argv as main receives it: the program name, then the tokens
ArgvOf(tokens) ==
    [k \in 1..(Len(tokens) + 1) |->
        IF k = 1 THEN CString(ProgramName) ELSE CString(tokens[k - 1])]

(***************************************************************************)
(* Argument vectors with blank, empty, padded and long elements: a program *)
(* name that is one space or is 60 bytes long, an empty token, a token     *)
(* with a leading space and a trailing TAB, a long name followed by a      *)
(* space, a lone dash, an operand of 80 bytes and a cluster of 80 bytes    *)
(* that ends with the letter z, which no definition uses.                  *)
(***************************************************************************)

BlankName == <<" ">>
LongProgramName == Rep("x", 60)

ProgramNames == {ProgramName, BlankName, LongProgramName}

PaddedToken == <<" ", "-", "t", TAB>>
\* "--help " passed as one element
HelpBlankToken == <<"-", "-", "h", "e", "l", "p", " ">>
LongOperand == Rep("y", 80)
LongCluster == <<"-">> \o Rep("t", 78) \o <<"z">>

WideVocabulary ==
    { <<>>,
      <<"-">>,
      <<"-", "t", "z">>,
      <<"-", "-">>,
      <<"-", "p">>,
      <<"a", "b", "c">>,
      PaddedToken,
      HelpBlankToken,
      LongOperand,
      LongCluster }

WideLines == SeqsUpTo(WideVocabulary, MaxArgs)

ArgvWith(name, tokens) ==
    [k \in 1..(Len(tokens) + 1) |->
        IF k = 1 THEN CString(name) ELSE CString(tokens[k - 1])]

(***************************************************************************)
(* The state.                                                              *)
(***************************************************************************)
VARIABLES
    pc,              \* setup, parsing, returned, setup_failed, parse_failed;
                     \* format, render, formatted, format_failed
    accu,            \* Parser::accu
    argv,            \* Parser::argv (Parser::argc is its length)
    errno,           \* the C error indicator
    i,               \* the loop index of Parse
    expectArgValue,  \* local of Parse
    lastArg,         \* local of Parse
    line,            \* local of Parse: the stringstream for error messages
    err,             \* the exception that left the Parser, if any
    columns,         \* parameter of ColumnFormat
    widthWeights,    \* parameter of ColumnFormat
    texts,           \* parameter of ColumnFormat
    leftPaddings,    \* parameter of ColumnFormat
    rightPaddings,   \* parameter of ColumnFormat
    softHyphen,      \* parameter of ColumnFormat
    breakAll,        \* parameter of ColumnFormat
    width,           \* local of ColumnFormat
    cursors,         \* local of ColumnFormat
    textAttributes,  \* local of ColumnFormat
    buff,            \* local of ColumnFormat: the rows written, cell by cell
    msg,             \* parameter of the ServerChallenge constructor
    pos,             \* local of the constructor: pos - msg.c_str()
    start,           \* local of the constructor: start - msg.c_str()
    field,           \* local of the constructor
    challenge,       \* the ServerChallenge object
    authArgs,        \* the arguments Authenticate was called with
    response         \* the string Authenticate returned

parserVars == <<pc, accu, argv, errno, i, expectArgValue, lastArg, line, err>>

columnArgs ==
    <<columns, widthWeights, texts, leftPaddings, rightPaddings, softHyphen, breakAll>>

columnVars == <<columnArgs, width, cursors, textAttributes, buff>>

challengeVars == <<msg, pos, start, field, challenge, authArgs, response>>

vars == <<parserVars, columnVars, challengeVars>>

argc == Len(argv)

NoErr == [kind |-> NoError, line |-> <<>>, position |-> 0, shown |-> NoText]

\* no call of ColumnFormat is under way
NoColumnFormat ==
    /\ columns = 0
    /\ widthWeights = <<>>
    /\ texts = <<>>
    /\ leftPaddings = <<>>
    /\ rightPaddings = <<>>
    /\ softHyphen = NUL
    /\ breakAll = FALSE
    /\ width = <<>>
    /\ cursors = <<>>
    /\ textAttributes = <<>>
    /\ buff = <<>>

\* the members of a ServerChallenge as its constructor initialises them
NewChallenge ==
    [salt |-> <<>>, backend |-> <<>>, version |-> 0, protocols |-> {},
     endianness |-> <<>>, passwordHashAlgo |-> <<>>]

\* Authenticate was not called
NoAuthenticate ==
    [user |-> <<>>, password |-> <<>>, database |-> <<>>, proto |-> <<>>,
     enableFileTransfer |-> FALSE]

\* no server challenge was received
NoChallenge ==
    /\ msg = <<>>
    /\ pos = 0
    /\ start = 0
    /\ field = 0
    /\ challenge = NewChallenge
    /\ authArgs = NoAuthenticate
    /\ response = <<>>

Init ==
    /\ pc = "setup"
    /\ accu = NewAccumulator
    /\ argv \in {ArgvOf(t) : t \in CommandLines}
    /\ errno \in ErrnoValues
    /\ i = 0
    /\ expectArgValue = FALSE
    /\ lastArg = EmptyArg
    /\ line = <<>>
    /\ err = NoErr
    /\ NoColumnFormat
    /\ NoChallenge

\* the Parser constructed on one of the argument vectors with blank,
\* padded and long elements
InitWide ==
    /\ pc = "setup"
    /\ accu = NewAccumulator
    /\ argv \in {ArgvWith(n, t) : n \in ProgramNames, t \in WideLines}
    /\ errno \in ErrnoValues
    /\ i = 0
    /\ expectArgValue = FALSE
    /\ lastArg = EmptyArg
    /\ line = <<>>
    /\ err = NoErr
    /\ NoColumnFormat
    /\ NoChallenge

(***************************************************************************)
(* The definition calls.  Each is accu.AddArg on a freshly constructed     *)
(* CommandLineArg; an exception leaves the setup (main.cpp ends with exit  *)
(* code 1).                                                                *)
(***************************************************************************)
Define(arg) ==
    /\ pc = "setup"
    /\ Cardinality(DOMAIN accu.argsByName) < MaxDefs
    /\ LET r == AddArg(accu, arg)
       IN  /\ accu' = r.accu
           /\ pc' = IF r.threw THEN "setup_failed" ELSE "setup"
           /\ err' = IF r.threw THEN [NoErr EXCEPT !.kind = DuplicateDefinition] ELSE err
    /\ UNCHANGED <<argv, errno, i, expectArgValue, lastArg, line>>
    /\ UNCHANGED columnVars
    /\ UNCHANGED challengeVars

Option == \E d \in OptionInputs : Define(OptionArg(d[1], d[2]))

Operand == \E n \in OperandInputs : Define(OperandArg(n))

ArgumentMandatory == \E d \in MandatoryInputs : Define(MandatoryArg(d[1], d[2], d[3]))

ArgumentInt == Define(IntDefaultArg(PortName, "p", PortDefault))

ArgumentString == Define(StringDefaultArg(HostName, "h", HostDefault))

ArgumentDouble == Define(DoubleDefaultArg(NumberName, "n", NumberDefault))

RestrictOperands ==
    /\ pc = "setup"
    /\ accu' = [accu EXCEPT !.restrictOperands = TRUE]
    /\ UNCHANGED <<pc, argv, errno, i, expectArgValue, lastArg, line, err>>
    /\ UNCHANGED columnVars
    /\ UNCHANGED challengeVars

(***************************************************************************)
(* Parser::Parse.                                                          *)
(***************************************************************************)
\* "line << " " << arg" or "line << arg", by line.tellp() > 0
LineAppend(l, arg) == IF Len(l) > 0 THEN l \o <<" ">> \o arg ELSE l \o arg

\* the catch block: trim the tokens j..argc-1 in place and append them
RECURSIVE CatchRest(_, _, _)
CatchRest(av, l, j) ==
    IF j >= Len(av) THEN [argv |-> av, line |-> l]
    ELSE LET t == Trim(av[j + 1])
         IN  CatchRest([av EXCEPT ![j + 1] = t.arg], LineAppend(l, StringOf(t.arg)), j + 1)

\* the call of Parse: its locals are initialised
ParseBegin ==
    /\ pc = "setup"
    /\ pc' = "parsing"
    /\ i' = 0
    /\ expectArgValue' = FALSE
    /\ lastArg' = EmptyArg
    /\ line' = <<>>
    /\ UNCHANGED <<accu, argv, errno, err>>
    /\ UNCHANGED columnVars
    /\ UNCHANGED challengeVars

\* the catch block of Parse, rest being the argv and the line it produced:
\* ThrowError(err.what(), line.str(), position)
ParseCatch(position, r, rest) ==
    /\ accu' = r.accu
    /\ errno' = r.errno
    /\ expectArgValue' = r.expectArgValue
    /\ lastArg' = r.lastArg
    /\ argv' = rest.argv
    /\ line' = rest.line
    /\ err' = [kind |-> r.threw, line |-> rest.line,
               position |-> position + r.letterOffset,
               shown |-> ThrowError(r.threw, rest.line, position + r.letterOffset)]
    /\ pc' = "parse_failed"
    /\ UNCHANGED i

\* an iteration that goes on to the next token whatever the try block
\* produced: a variant the stop at the first error must tell apart from the
\* code
ParseOutcome_GoesOn(position, argv1, line1, r) ==
    /\ accu' = r.accu
    /\ errno' = r.errno
    /\ expectArgValue' = r.expectArgValue
    /\ lastArg' = r.lastArg
    /\ argv' = argv1
    /\ line' = line1
    /\ i' = i + 1
    /\ UNCHANGED <<pc, err>>

\* the end of an iteration whose try block produced r
ParseOutcome(position, argv1, line1, r) ==
    IF r.threw = NoError
    THEN /\ accu' = r.accu
         /\ errno' = r.errno
         /\ expectArgValue' = r.expectArgValue
         /\ lastArg' = r.lastArg
         /\ argv' = argv1
         /\ line' = line1
         /\ i' = i + 1
         /\ UNCHANGED <<pc, err>>
    ELSE ParseCatch(position, r, CatchRest(argv1, line1, i + 1))

\* an iteration after "int length = this->Trim(&(this->argv[i]))" gave t
ParseTrimmed(position, t, arg) ==
    IF i = 0
    THEN /\ accu' = [accu EXCEPT !.executableName = arg]
         /\ argv' = [argv EXCEPT ![i + 1] = t.arg]
         /\ line' = LineAppend(line, arg)
         /\ i' = i + 1
         /\ UNCHANGED <<pc, errno, expectArgValue, lastArg, err>>
    ELSE ParseOutcome(position, [argv EXCEPT ![i + 1] = t.arg], LineAppend(line, arg),
                      TryBody([accu |-> accu, errno |-> errno,
                               expectArgValue |-> expectArgValue, lastArg |-> lastArg],
                              arg, t.length))

\* one iteration of "for(int i = 0; i < this->argc; i++)"
ParseToken ==
    /\ pc = "parsing"
    /\ i < argc
    /\ ParseTrimmed(Len(line), Trim(argv[i + 1]), StringOf(Trim(argv[i + 1]).arg))
    /\ UNCHANGED columnVars
    /\ UNCHANGED challengeVars

\* "return Arguments(this->accu)" after the loop
ParseReturn ==
    /\ pc = "parsing"
    /\ i >= argc
    /\ pc' = "returned"
    /\ UNCHANGED <<accu, argv, errno, i, expectArgValue, lastArg, line, err>>
    /\ UNCHANGED columnVars
    /\ UNCHANGED challengeVars

Next ==
    \/ Option
    \/ Operand
    \/ ArgumentMandatory
    \/ ArgumentInt
    \/ ArgumentString
    \/ ArgumentDouble
    \/ RestrictOperands
    \/ ParseBegin
    \/ ParseToken
    \/ ParseReturn

Spec == Init /\ [][Next]_vars

SpecWide == InitWide /\ [][Next]_vars

(***************************************************************************)
(* Parser::ColumnFormat, one step for the validation and the computation   *)
(* of the widths and one step per iteration of its "while (true)" loop,    *)
(* which writes one row: for every column the left padding, the line of    *)
(* FormatLine (or width spaces when the text is used up) and the right     *)
(* padding.                                                                *)
(***************************************************************************)
\* the messages of the exceptions of ColumnFormat
TooFewColumns == "Too small 'columns' parameter value"
BadWidthWeights == "'widthWeights' parameter: invalid number of elements"
BadTexts == "'texts' parameter: invalid number of elements"
BadLeftPaddings == "'leftPaddings' parameter: invalid number of elements"
BadRightPaddings == "'rightPaddings' parameter: invalid number of elements"
BadWeight == "All width weight values must be larger than zero"
NegativeLeftPadding == "The 'left padding' value is negative"
NegativeRightPadding == "The 'right padding' value is negative"
WindowTooSmall == "Can't render text. Window width too small."

RECURSIVE Sum(_)
Sum(v) == IF v = <<>> THEN 0 ELSE v[1] + Sum(Tail(v))

\* the loop that validates weights and paddings column by column, from
\* column (counted from 0) on
RECURSIVE CheckColumns(_, _, _, _)
CheckColumns(column, weights, lefts, rights) ==
    IF column >= Len(weights) THEN NoError
    ELSE IF weights[column + 1] <= 0 THEN BadWeight
    ELSE IF lefts[column + 1] < 0 THEN NegativeLeftPadding
    ELSE IF rights[column + 1] < 0 THEN NegativeRightPadding
    ELSE CheckColumns(column + 1, weights, lefts, rights)

\* The arithmetic of double, for the quotient of two whole weights and its
\* product with a whole width.  A double is mant * 2^exp, mant being a
\* sequence of DoubleBits bits that starts with 1; a result that is not
\* exact is rounded to the nearest double, to the even one at a tie.
BitsOf(n) == [k \in 1..7 |-> (n \div (2 ^ (7 - k))) % 2]

RECURSIVE BitsValue(_)
BitsValue(bits) ==
    IF bits = <<>> THEN 0
    ELSE 2 * BitsValue(SubSeq(bits, 1, Len(bits) - 1)) + bits[Len(bits)]

\* bits without the zeros at its start
RECURSIVE Significant(_)
Significant(bits) ==
    IF bits # <<>> /\ bits[1] = 0 THEN Significant(Tail(bits)) ELSE bits

\* the first n bits after the binary point of rem / d, for rem < d
RECURSIVE QuotientBits(_, _, _)
QuotientBits(rem, d, n) ==
    IF n = 0 THEN <<>>
    ELSE <<(2 * rem) \div d>> \o QuotientBits((2 * rem) % d, d, n - 1)

\* the remainder that is left after these n bits
RECURSIVE QuotientRest(_, _, _)
QuotientRest(rem, d, n) ==
    IF n = 0 THEN rem ELSE QuotientRest((2 * rem) % d, d, n - 1)

\* the number of zero bits after the binary point of rem / d, 0 < rem < d
RECURSIVE ZeroBits(_, _)
ZeroBits(rem, d) == IF 2 * rem >= d THEN 0 ELSE 1 + ZeroBits(2 * rem, d)

\* bits + 1
RECURSIVE Increment(_)
Increment(bits) ==
    IF bits = <<>> THEN <<1>>
    ELSE IF bits[Len(bits)] = 0 THEN SubSeq(bits, 1, Len(bits) - 1) \o <<1>>
    ELSE Increment(SubSeq(bits, 1, Len(bits) - 1)) \o <<0>>

\* the double for mant * 2^exp when mant has DoubleBits or, after a carry
\* out of an increment, DoubleBits + 1 bits (the last one is 0 then)
MkDoubleBits(mant, exp) ==
    IF Len(mant) > DoubleBits
    THEN [mant |-> SubSeq(mant, 1, DoubleBits), exp |-> exp + 1]
    ELSE [mant |-> mant, exp |-> exp]

\* the double nearest to top * 2^exp + (a fraction of 2^exp), the fraction
\* being more than a half (above), a half (half) or less
NearestDouble(top, exp, above, half) ==
    IF above \/ (half /\ top[DoubleBits] = 1)
    THEN MkDoubleBits(Increment(top), exp)
    ELSE MkDoubleBits(top, exp)

\* "widthWeights[column] / weightSum" for 0 < weight < weightSum
DoubleQuotient(weight, weightSum) ==
    NearestDouble(
        SubSeq(QuotientBits(weight, weightSum, ZeroBits(weight, weightSum) + DoubleBits),
               ZeroBits(weight, weightSum) + 1, ZeroBits(weight, weightSum) + DoubleBits),
        0 - (ZeroBits(weight, weightSum) + DoubleBits),
        2 * QuotientRest(weight, weightSum, ZeroBits(weight, weightSum) + DoubleBits)
            > weightSum,
        2 * QuotientRest(weight, weightSum, ZeroBits(weight, weightSum) + DoubleBits)
            = weightSum)

\* bits * n + carry, for n < 128
RECURSIVE TimesSmall(_, _, _)
TimesSmall(bits, n, carry) ==
    IF bits = <<>> THEN Significant(BitsOf(carry))
    ELSE TimesSmall(SubSeq(bits, 1, Len(bits) - 1), n,
                    (bits[Len(bits)] * n + carry) \div 2)
             \o <<(bits[Len(bits)] * n + carry) % 2>>

\* the double nearest to product * 2^exp, product having at least
\* DoubleBits bits
RoundProduct(product, exp) ==
    IF Len(product) = DoubleBits THEN MkDoubleBits(product, exp)
    ELSE NearestDouble(
             SubSeq(product, 1, DoubleBits),
             exp + Len(product) - DoubleBits,
             product[DoubleBits + 1] = 1
                 /\ \E k \in DoubleBits + 2..Len(product) : product[k] = 1,
             product[DoubleBits + 1] = 1
                 /\ \A k \in DoubleBits + 2..Len(product) : product[k] = 0)

\* "(double)workWidth * q" for 0 < workWidth < 128
DoubleTimes(workWidth, q) == RoundProduct(TimesSmall(q.mant, workWidth, 0), q.exp)

\* "(int)round(x)" for a double 0 < x < 128: halves are rounded away from
\* zero
DoubleRound(x) ==
    IF DoubleBits + x.exp < 0 THEN 0
    ELSE BitsValue(SubSeq(x.mant, 1, DoubleBits + x.exp))
             + x.mant[DoubleBits + x.exp + 1]

\* "(int)round((double)workWidth * (widthWeights[column] / weightSum))" for
\* whole weights, weight being one of the weights that add up to weightSum
ColumnWidth(workWidth, weight, weightSum) ==
    IF weight = weightSum THEN workWidth
    ELSE DoubleRound(DoubleTimes(workWidth, DoubleQuotient(weight, weightSum)))

\* the exception of the validation and of the computation of the widths,
\* NoError when the rows are written
\* the validation without the test "workWidth < columns"
ColumnFormatError_NoWindowTest(n, weights, txts, lefts, rights) ==
    IF n < 1 THEN TooFewColumns
    ELSE IF Len(weights) # n THEN BadWidthWeights
    ELSE IF Len(txts) # n THEN BadTexts
    ELSE IF Len(lefts) # n THEN BadLeftPaddings
    ELSE IF Len(rights) # n THEN BadRightPaddings
    ELSE IF CheckColumns(0, weights, lefts, rights) # NoError
    THEN CheckColumns(0, weights, lefts, rights)
    ELSE IF \E column \in 1..n :
               ColumnWidth(screenWidth - Sum(lefts) - Sum(rights),
                           weights[column], Sum(weights)) < 1
    THEN WindowTooSmall
    ELSE NoError

ColumnFormatError(n, weights, txts, lefts, rights) ==
    IF n < 1 THEN TooFewColumns
    ELSE IF Len(weights) # n THEN BadWidthWeights
    ELSE IF Len(txts) # n THEN BadTexts
    ELSE IF Len(lefts) # n THEN BadLeftPaddings
    ELSE IF Len(rights) # n THEN BadRightPaddings
    ELSE IF CheckColumns(0, weights, lefts, rights) # NoError
    THEN CheckColumns(0, weights, lefts, rights)
    ELSE IF screenWidth - Sum(lefts) - Sum(rights) < n THEN WindowTooSmall
    ELSE IF \E column \in 1..n :
               ColumnWidth(screenWidth - Sum(lefts) - Sum(rights),
                           weights[column], Sum(weights)) < 1
    THEN WindowTooSmall
    ELSE NoError

\* the call up to the loop that writes the rows
ColumnFormatBegin ==
    /\ pc = "format"
    /\ IF ColumnFormatError(columns, widthWeights, texts, leftPaddings,
                            rightPaddings) # NoError
       THEN /\ pc' = "format_failed"
            /\ err' = [NoErr EXCEPT !.kind =
                           ColumnFormatError(columns, widthWeights, texts,
                                             leftPaddings, rightPaddings)]
            /\ UNCHANGED <<width, cursors, textAttributes>>
       ELSE /\ pc' = "render"
            /\ width' = [column \in 1..columns |->
                            ColumnWidth(screenWidth - Sum(leftPaddings)
                                            - Sum(rightPaddings),
                                        widthWeights[column], Sum(widthWeights))]
            /\ cursors' = [column \in 1..columns |-> 0]
            /\ textAttributes' = [column \in 1..columns |-> 0]
            /\ err' = err
    /\ UNCHANGED <<accu, argv, errno, i, expectArgValue, lastArg, line>>
    /\ UNCHANGED <<columnArgs, buff>>
    /\ UNCHANGED challengeVars

\* the body of "for (int column = 0; column < columns; column++)" for the
\* column (counted from 1) whose FormatLine call, if made, returned r
RowCell(column, r) ==
    Rep(" ", leftPaddings[column])
        \o (IF cursors[column] >= Len(texts[column])
            THEN Rep(" ", width[column]) ELSE r.out)
        \o Rep(" ", rightPaddings[column])

\* the FormatLine call of a column
RowCall(column) ==
    FormatLine(texts[column], cursors[column], width[column], softHyphen,
               textAttributes[column])

\* one iteration of "while (true)"; it ends the loop when no column had
\* text left
ColumnFormatRow ==
    /\ pc = "render"
    /\ Len(buff) < MaxRows
    /\ buff' = Append(buff, [column \in 1..columns |-> RowCell(column, RowCall(column))])
    /\ cursors' = [column \in 1..columns |->
                      IF cursors[column] >= Len(texts[column]) THEN cursors[column]
                      ELSE RowCall(column).cursor]
    /\ textAttributes' = [column \in 1..columns |->
                      IF cursors[column] >= Len(texts[column])
                      THEN textAttributes[column]
                      ELSE RowCall(column).textAttribute]
    /\ pc' = IF \A column \in 1..columns : cursors[column] >= Len(texts[column])
             THEN "formatted" ELSE "render"
    /\ UNCHANGED <<accu, argv, errno, i, expectArgValue, lastArg, line, err>>
    /\ UNCHANGED <<columnArgs, width>>
    /\ UNCHANGED challengeVars

(***************************************************************************)
(* The calls of ColumnFormat that are followed: every text of at most      *)
(* MaxPieces pieces in one column of 1 to MaxLimit characters, with '|' as *)
(* the soft hyphen and without one; pairs of short texts in two columns    *)
(* of two characters; the layout of the help table of GenerateDoc; and     *)
(* calls that the validation rejects.                                      *)
(***************************************************************************)
Bold == AttributeMarker(1)
Reset == AttributeMarker(0)
\* U+00E9 and U+20AC in UTF-8
EAcute == <<"0xC3", "0xA9">>
Euro == <<"0xE2", "0x82", "0xAC">>

Pieces ==
    {<<"a">>, <<"b">>, <<" ">>, <<"|">>, <<ESC>>, <<GS>>, Bold, Reset, EAcute, Euro}

RECURSIVE Concat(_)
Concat(ps) == IF ps = <<>> THEN <<>> ELSE ps[1] \o Concat(Tail(ps))

Texts == {Concat(ps) : ps \in SeqsUpTo(Pieces, MaxPieces)}

ShortTexts == {Concat(ps) : ps \in SeqsUpTo(Pieces, MaxShortPieces)}

ColumnCall(n, weights, txts, lefts, rights, hyphen, all) ==
    [columns |-> n, widthWeights |-> weights, texts |-> txts, leftPaddings |-> lefts,
     rightPaddings |-> rights, softHyphen |-> hyphen, breakAll |-> all]

OneColumnCalls ==
    {ColumnCall(1, <<1>>, <<t>>, <<screenWidth - limit>>, <<0>>, hyphen, FALSE) :
        t \in Texts, limit \in 1..MaxLimit, hyphen \in {"|", NUL}}

TwoColumnCalls ==
    {ColumnCall(2, <<1, 1>>, <<t, u>>, <<screenWidth - 5, 0>>, <<1, 0>>, "|", all) :
        t \in ShortTexts, u \in ShortTexts, all \in BOOLEAN}

\* "ColumnFormat(2, { 40, 60 }, { left, description }, { 1, 0 }, { 1, 0 },
\* '|', false)" of GenerateDoc
HelpTableCalls ==
    {ColumnCall(2, <<40, 60>>, <<Bold \o <<"-", "-">> \o t \o Reset, u>>,
                <<1, 0>>, <<1, 0>>, "|", FALSE) :
        t \in ShortTexts, u \in ShortTexts}

RejectedCalls ==
    {ColumnCall(0, <<>>, <<>>, <<>>, <<>>, "|", FALSE),
     ColumnCall(1, <<1, 1>>, <<<<"a">>>>, <<0>>, <<0>>, "|", FALSE),
     ColumnCall(1, <<1>>, <<<<"a">>, <<"b">>>>, <<0>>, <<0>>, "|", FALSE),
     ColumnCall(1, <<1>>, <<<<"a">>>>, <<>>, <<0>>, "|", FALSE),
     ColumnCall(1, <<1>>, <<<<"a">>>>, <<0>>, <<0, 0>>, "|", FALSE),
     ColumnCall(1, <<0>>, <<<<"a">>>>, <<0>>, <<0>>, "|", FALSE),
     ColumnCall(2, <<1, -1>>, <<<<"a">>, <<"b">>>>, <<0, 0>>, <<0, 0>>, "|", FALSE),
     ColumnCall(1, <<1>>, <<<<"a">>>>, <<-1>>, <<0>>, "|", FALSE),
     ColumnCall(1, <<1>>, <<<<"a">>>>, <<0>>, <<-1>>, "|", FALSE),
     ColumnCall(1, <<1>>, <<<<"a">>>>, <<screenWidth>>, <<0>>, "|", FALSE),
     ColumnCall(2, <<1, 1>>, <<<<"a">>, <<"b">>>>, <<screenWidth - 1, 0>>, <<0, 0>>,
                "|", FALSE),
     ColumnCall(2, <<1, 100>>, <<<<"a">>, <<"b">>>>, <<screenWidth - 2, 0>>, <<0, 0>>,
                "|", FALSE)}

\* texts of letters, blanks, attribute markers and the sequences ESC [ 3 m,
\* ESC [ 6 m and ESC [ 9 m, which are no attribute markers
AttributePieces ==
    {<<"a">>, <<" ">>, Bold, AttributeMarker(4), <<ESC, "[", "3", "m">>,
     <<ESC, "[", "6", "m">>, <<ESC, "[", "9", "m">>}

AttributeTexts == {Concat(ps) : ps \in SeqsUpTo(AttributePieces, MaxAttributePieces)}

AttributeCalls ==
    {ColumnCall(1, <<1>>, <<t>>, <<screenWidth - limit>>, <<0>>, "|", FALSE) :
        t \in AttributeTexts, limit \in 1..MaxLimit}

\* texts of letters, blanks and the markers of bold and of no attribute,
\* long enough for a word with two markers that is followed by a further
\* line, and for a word with a marker that is taken to the next line
ReopenPieces == {<<"a">>, <<" ">>, Bold, Reset}

ReopenTexts == {Concat(ps) : ps \in SeqsUpTo(ReopenPieces, MaxReopenPieces)}

ReopenCalls ==
    {ColumnCall(1, <<1>>, <<t>>, <<screenWidth - limit>>, <<0>>, "|", FALSE) :
        t \in ReopenTexts, limit \in 1..MaxLimit}

\* two columns of one letter each, for pairs of weights on usable widths
\* (the screen width less the paddings) of 5, 10, 45 and 78 characters
WeightPairs == {<<1, 1>>, <<1, 2>>, <<7, 3>>, <<40, 60>>}

UsableWidths == {5, 10, 45, 78}

WeightCalls ==
    {ColumnCall(2, weights, <<<<"a">>, <<"b">>>>, <<screenWidth - usable - 1, 0>>,
                <<1, 0>>, "|", FALSE) :
        weights \in WeightPairs, usable \in UsableWidths}

\* the parameters of the call are those of c
CallOf(c) ==
    /\ columns = c.columns
    /\ widthWeights = c.widthWeights
    /\ texts = c.texts
    /\ leftPaddings = c.leftPaddings
    /\ rightPaddings = c.rightPaddings
    /\ softHyphen = c.softHyphen
    /\ breakAll = c.breakAll

\* a Parser as constructed, on which ColumnFormat is called with one of the
\* calls above
InitColumns ==
    /\ pc = "format"
    /\ accu = NewAccumulator
    /\ argv = ArgvOf(<<>>)
    /\ errno = ENone
    /\ i = 0
    /\ expectArgValue = FALSE
    /\ lastArg = EmptyArg
    /\ line = <<>>
    /\ err = NoErr
    /\ \/ \E c \in OneColumnCalls : CallOf(c)
       \/ \E c \in TwoColumnCalls : CallOf(c)
       \/ \E c \in HelpTableCalls : CallOf(c)
       \/ \E c \in AttributeCalls : CallOf(c)
       \/ \E c \in WeightCalls : CallOf(c)
       \/ \E c \in ReopenCalls : CallOf(c)
       \/ \E c \in RejectedCalls : CallOf(c)
    /\ width = <<>>
    /\ cursors = <<>>
    /\ textAttributes = <<>>
    /\ buff = <<>>
    /\ NoChallenge

NextColumns ==
    \/ ColumnFormatBegin
    \/ ColumnFormatRow

SpecColumns == InitColumns /\ [][NextColumns]_vars


(***************************************************************************)
(* Vocabulary of the properties.                                           *)
(***************************************************************************)
\* the definitions the definition calls above can pass to AddArg
DefinitionInputs ==
    {OptionArg(d[1], d[2]) : d \in OptionInputs}
        \cup {OperandArg(n) : n \in OperandInputs}
        \cup {MandatoryArg(d[1], d[2], d[3]) : d \in MandatoryInputs}
        \cup {IntDefaultArg(PortName, "p", PortDefault),
              StringDefaultArg(HostName, "h", HostDefault),
              DoubleDefaultArg(NumberName, "n", NumberDefault)}

\* the registered definitions, by the long-name index
Registered == {accu.argsByName[n] : n \in DOMAIN accu.argsByName}

RegisteredArguments == {d \in Registered : d.argClass = ClassArgument}

\* the tokens of the command line as Parse sees them: trimmed
Token(k) == StringOf(Trim(argv[k + 1]).arg)

\* the token the next iteration of Parse reads
AtToken == pc = "parsing" /\ 0 < i /\ i < argc

\* Normal and AwaitingValue of the parser's state machine
Normal == AtToken /\ ~expectArgValue
AwaitingValue == AtToken /\ expectArgValue

LongForm(d) == <<"-", "-">> \o d.name
ShortForm(d) == <<"-", d.letter>>

\* the letters of a cluster token "-xyz" that resolve to a definition of
\* class c in the letter index
ClusterLetters(tok, c) ==
    {k \in 2..Len(tok) : /\ tok[k] \in DOMAIN accu.argsByLetter
                         /\ accu.argsByLetter[tok[k]].argClass = c}

UnknownLetters(tok) == {k \in 2..Len(tok) : tok[k] \notin DOMAIN accu.argsByLetter}

IsCluster(tok) == Len(tok) > 1 /\ tok[1] = "-" /\ tok[2] # "-"

\* the value a token has in the declared type, as the C library reads it
Converted(t, value) ==
    IF t = TypeInt THEN Strtol(value).result
    ELSE IF t = TypeDouble THEN Strtod(value).result
    ELSE value

\* the Value Store entry of a definition, in the map of its declared type
ValueMap(a, t) ==
    IF t = TypeInt THEN a.intValues
    ELSE IF t = TypeDouble THEN a.doubleValues
    ELSE a.stringValues

HasValue(a, d) == d.name \in DOMAIN ValueMap(a, d.argType)

StoredValue(a, d) == ValueMap(a, d.argType)[d.name]

\* the declared default of an optional Argument
DeclaredDefault(d) ==
    IF d.argType = TypeInt THEN d.intDefault
    ELSE IF d.argType = TypeDouble THEN d.doubleDefault
    ELSE d.stringDefault

(***************************************************************************)
(* C1.  After Parse succeeds on a command line that supplies a value for   *)
(* a registered Argument (as --name value or -letter value), the Value     *)
(* Store entry under the Argument's long name is the supplied token        *)
(* converted to the declared type, for Arguments with a default as well as *)
(* for mandatory ones.  Stated for the command lines whose first token     *)
(* names the Argument and whose second token is the value; the command     *)
(* line of the end-to-end example is such a line for host.                 *)
(***************************************************************************)
C1_SuppliedValueIsStored ==
    (pc = "returned" /\ argc >= 3) =>
        \A d \in RegisteredArguments :
            (Token(1) = LongForm(d) \/ (d.letter # NoLetter /\ Token(1) = ShortForm(d)))
                => /\ HasValue(accu, d)
                   /\ StoredValue(accu, d) = Converted(d.argType, Token(2))

(***************************************************************************)
(* C2.  With RestrictOperands active and k declared Operand definitions,   *)
(* Parse fails with TooManyOperands on the (k+1)-th operand token, so      *)
(* after a successful restricted Parse the number of collected operands    *)
(* never exceeds k.                                                        *)
(***************************************************************************)
C2_OperandCountRestricted ==
    (pc = "returned" /\ accu.restrictOperands) =>
        Len(accu.operandValues) <= Len(accu.operands)

(***************************************************************************)
(* C3.  After any sequence of successful definition calls and before       *)
(* Parse, for every optional Argument the Value Store holds exactly its    *)
(* declared default under its long name, in the map of its declared type   *)
(* (string, int or double alike).                                          *)
(***************************************************************************)
C3_DefaultsStored ==
    pc = "setup" =>
        \A d \in RegisteredArguments :
            d.optional => /\ HasValue(accu, d)
                          /\ StoredValue(accu, d) = DeclaredDefault(d)

(***************************************************************************)
(* C4.  For any sequence of definition calls (Option, Operand, Argument), *)
(* a call whose long name equals an already registered long name, or whose *)
(* non-zero short letter equals an already registered short letter, fails  *)
(* with DuplicateDefinition; a call whose long name and short letter are   *)
(* both unused succeeds.  Hence long names and short letters stay unique   *)
(* across all definitions.  "Registered" are the definitions whose calls   *)
(* returned; the letters in use are read from these definitions, not from  *)
(* the letter index.                                                       *)
(***************************************************************************)
NameInUse(name) == \E d \in Registered : d.name = name

LetterInUse(letter) == letter # NoLetter /\ \E d \in Registered : d.letter = letter

C4_UniqueWhileSetup ==
    pc \in {"setup", "parsing", "returned"} =>
        /\ \A d, e \in Registered :
              d # e => d.name # e.name /\ (d.letter = NoLetter \/ d.letter # e.letter)
        /\ \A d \in Registered :
              d.letter # NoLetter =>
                  d.letter \in DOMAIN accu.argsByLetter /\ accu.argsByLetter[d.letter] = d

C4_DuplicateRule ==
    \A arg \in DefinitionInputs :
        Define(arg) =>
            /\ (NameInUse(arg.name) \/ LetterInUse(arg.letter))
                   <=> (pc' = "setup_failed" /\ err'.kind = DuplicateDefinition)
            /\ pc' = "setup" => arg \in {accu'.argsByName[n] : n \in DOMAIN accu'.argsByName}

C4_DuplicateDefinition == [](C4_UniqueWhileSetup) /\ [][C4_DuplicateRule]_vars

\* a call was rejected for its letter: its name is new, its letter is the
\* letter of a registered definition of another name
C4_Witness ==
    /\ pc = "setup_failed"
    /\ \E d \in Registered :
          /\ d.letter # NoLetter
          /\ accu.argsByLetter[d.letter].name # d.name

(***************************************************************************)
(* Running the try block of Parse over a sequence of tokens from a given   *)
(* state of the loop, as the iterations of Parse do (each token trimmed,   *)
(* the run ending at the first error).                                     *)
(***************************************************************************)
LoopState ==
    Outcome([accu |-> accu, errno |-> errno, expectArgValue |-> expectArgValue,
             lastArg |-> lastArg], NoError, 0)

RECURSIVE RunTokens(_, _)
RunToken(r, t, rest) ==
    RunTokens(TryBody([accu |-> r.accu, errno |-> r.errno,
                       expectArgValue |-> r.expectArgValue, lastArg |-> r.lastArg],
                      StringOf(t.arg), t.length),
              rest)

RunTokens(r, toks) ==
    IF toks = <<>> \/ r.threw # NoError THEN r
    ELSE RunToken(r, Trim(CString(Head(toks))), Tail(toks))

\* the step taken is an iteration of Parse that ended in the catch block
Failed(kind) == pc' = "parse_failed" /\ err'.kind = kind

ValueMapsUnchanged ==
    /\ accu'.stringValues = accu.stringValues
    /\ accu'.intValues = accu.intValues
    /\ accu'.doubleValues = accu.doubleValues

(***************************************************************************)
(* C5.  For every registered Argument that has a short letter and every    *)
(* token v, a command line parsed so far without error and left in the     *)
(* Normal state, when continued with "--name v" and when continued with    *)
(* "-letter v", ends in identical Value Store states (same typed maps,     *)
(* same activated options, same operands) or fails with the same error;    *)
(* the state the loop carries on with is the same too, so that any further *)
(* tokens are handled alike.                                               *)
(***************************************************************************)
SameOutcome(long, short) ==
    /\ long.threw = short.threw
    /\ long.accu = short.accu
    /\ long.errno = short.errno
    /\ long.expectArgValue = short.expectArgValue
    /\ long.lastArg = short.lastArg

C5_LongAndShortFormAgree ==
    (pc = "parsing" /\ i = argc /\ ~expectArgValue) =>
        \A d \in RegisteredArguments :
            d.letter # NoLetter =>
                \A v \in Vocabulary :
                    SameOutcome(RunTokens(LoopState, <<LongForm(d), v>>),
                                RunTokens(LoopState, <<ShortForm(d), v>>))

\* Parse returned after "-letter value" for a mandatory Argument, whose
\* value is stored
C5_Witness ==
    /\ pc = "returned"
    /\ argc = 3
    /\ \E d \in RegisteredArguments :
          /\ d.letter # NoLetter
          /\ ~d.optional
          /\ Token(1) = ShortForm(d)
          /\ HasValue(accu, d)
          /\ StoredValue(accu, d) = Converted(d.argType, Token(2))

(***************************************************************************)
(* C6.  A short cluster whose letters are all registered Options activates *)
(* every one of them; a cluster with exactly one Argument letter (at any   *)
(* position in the cluster) and otherwise Option letters activates all     *)
(* those Options and consumes the next token as the value of that Argument *)
(* only: the token is handed to the conversion of that Argument, it        *)
(* activates no option, becomes no operand and touches no other entry.     *)
(***************************************************************************)
OptionNamesOf(tok) ==
    {accu.argsByLetter[tok[k]].name : k \in ClusterLetters(tok, ClassOption)}

C6_ClusterStep ==
    (/\ Normal
     /\ IsCluster(Token(i))
     /\ UnknownLetters(Token(i)) = {}
     /\ Cardinality(ClusterLetters(Token(i), ClassArgument)) <= 1)
        => /\ pc' = "parsing"
           /\ i' = i + 1
           /\ accu'.optionNames = accu.optionNames \cup OptionNamesOf(Token(i))
           /\ accu'.operandValues = accu.operandValues
           /\ ValueMapsUnchanged
           /\ IF ClusterLetters(Token(i), ClassArgument) = {}
              THEN expectArgValue' = FALSE
              ELSE /\ expectArgValue' = TRUE
                   /\ \A k \in ClusterLetters(Token(i), ClassArgument) :
                          lastArg' = accu.argsByLetter[Token(i)[k]]

C6_ValueStep ==
    (AwaitingValue /\ Token(i) # <<>>)
        => /\ accu'.optionNames = accu.optionNames
           /\ accu'.operandValues = accu.operandValues
           /\ \A t \in {TypeString, TypeInt, TypeDouble} :
                 \A n \in DOMAIN ValueMap(accu', t) :
                     \/ n \in DOMAIN ValueMap(accu, t) /\ ValueMap(accu', t)[n] = ValueMap(accu, t)[n]
                     \/ /\ t = lastArg.argType
                        /\ n = lastArg.name
                        /\ ValueMap(accu', t)[n] = Converted(t, Token(i))
           /\ pc' = "parsing" => i' = i + 1 /\ expectArgValue' = FALSE /\ HasValue(accu', lastArg)
           /\ pc' # "parsing" =>
                 /\ pc' = "parse_failed"
                 /\ err'.kind \in {InvalidInteger, IntegerOutOfRange, InvalidDouble, DoubleOutOfRange}
                 /\ ValueMapsUnchanged

C7_FailsAsMultiple ==
    /\ Failed(MultipleArgumentsInCluster)
    /\ i' = i
    /\ ValueMapsUnchanged
    /\ accu'.operandValues = accu.operandValues

C7_Original ==
    [][(/\ Normal
        /\ IsCluster(Token(i))
        /\ Cardinality(ClusterLetters(Token(i), ClassArgument)) >= 2)
           => C7_FailsAsMultiple]_vars

(***************************************************************************)
(* C7, amended.  A short cluster that contains two or more letters         *)
(* resolving to Arguments, and no unregistered letter before the second of *)
(* them, fails with MultipleArgumentsInCluster, and no following token is  *)
(* consumed as a value.  (The letters are looked up from left to right, so *)
(* an unregistered letter met earlier fails with UnknownArgumentLetter.)   *)
(***************************************************************************)
\* the position of the second Argument letter of the cluster
SecondArgumentLetter(tok) ==
    CHOOSE k \in ClusterLetters(tok, ClassArgument) :
        Cardinality({j \in ClusterLetters(tok, ClassArgument) : j < k}) = 1

C7_MultipleArgumentsInCluster ==
    [][(/\ Normal
        /\ IsCluster(Token(i))
        /\ Cardinality(ClusterLetters(Token(i), ClassArgument)) >= 2
        /\ \A k \in UnknownLetters(Token(i)) : k > SecondArgumentLetter(Token(i)))
           => C7_FailsAsMultiple]_vars

\* Parse failed on a cluster of two Argument letters that a token follows
C7_Witness ==
    /\ pc = "parse_failed"
    /\ err.kind = MultipleArgumentsInCluster
    /\ i < argc - 1
    /\ Cardinality(ClusterLetters(Token(i), ClassArgument)) >= 2

(***************************************************************************)
(* C8.  As claimed: in the Normal state the token "--" fails with          *)
(* SyntaxError, a long form whose name is not registered fails with        *)
(* UnknownArgument, a short cluster containing an unregistered letter      *)
(* fails with UnknownArgumentLetter, and a token that uses only registered *)
(* names and letters raises none of the three.                             *)
(***************************************************************************)
IsLongForm(tok) == Len(tok) > 2 /\ tok[1] = "-" /\ tok[2] = "-"

RegisteredNames == {d.name : d \in Registered}

LookupErrors == {SyntaxError, UnknownArgument, UnknownArgumentLetter}

C8_DoubleDash == Token(i) = <<"-", "-">> => Failed(SyntaxError)

C8_UnknownLongName ==
    (IsLongForm(Token(i)) /\ Drop(Token(i), 2) \notin RegisteredNames)
        => Failed(UnknownArgument)

C8_RegisteredOnly ==
    (\/ IsLongForm(Token(i)) /\ Drop(Token(i), 2) \in RegisteredNames
     \/ IsCluster(Token(i)) /\ UnknownLetters(Token(i)) = {})
        => ~(pc' = "parse_failed" /\ err'.kind \in LookupErrors)

C8_Original ==
    [][Normal =>
          /\ C8_DoubleDash
          /\ C8_UnknownLongName
          /\ (IsCluster(Token(i)) /\ UnknownLetters(Token(i)) # {})
                 => Failed(UnknownArgumentLetter)
          /\ C8_RegisteredOnly]_vars

(***************************************************************************)
(* C8, amended.  The same, except that a short cluster containing an       *)
(* unregistered letter fails with UnknownArgumentLetter provided fewer     *)
(* than two Argument letters precede its first unregistered letter (with   *)
(* two before it the cluster has already failed with                       *)
(* MultipleArgumentsInCluster).                                            *)
(***************************************************************************)
FirstUnknownLetter(tok) ==
    CHOOSE k \in UnknownLetters(tok) : \A j \in UnknownLetters(tok) : k <= j

C8_UnknownLetter ==
    (/\ IsCluster(Token(i))
     /\ UnknownLetters(Token(i)) # {}
     /\ Cardinality({k \in ClusterLetters(Token(i), ClassArgument) :
                        k < FirstUnknownLetter(Token(i))}) < 2)
        => Failed(UnknownArgumentLetter)

C8_LookupErrors ==
    [][Normal =>
          /\ C8_DoubleDash
          /\ C8_UnknownLongName
          /\ C8_UnknownLetter
          /\ C8_RegisteredOnly]_vars

\* Parse failed on a cluster whose unregistered letter follows a registered
\* one
C8_Witness ==
    /\ pc = "parse_failed"
    /\ err.kind = UnknownArgumentLetter
    /\ IsCluster(Token(i))
    /\ UnknownLetters(Token(i)) # {}
    /\ FirstUnknownLetter(Token(i)) > 2

(***************************************************************************)
(* C9.  As claimed: a value token handed to an Int Argument that is not    *)
(* entirely a valid integer fails with InvalidInteger, one whose magnitude *)
(* exceeds the range of the conversion (99999999999999999999) fails with   *)
(* IntegerOutOfRange, and in both cases nothing is written to the integer  *)
(* map.                                                                    *)
(***************************************************************************)
\* an optional sign followed by decimal digits and nothing else
IsDecimal(tok) ==
    /\ tok # <<>>
    /\ LET body == IF Head(tok) \in {"+", "-"} THEN Tail(tok) ELSE tok
       IN  body # <<>> /\ \A k \in 1..Len(body) : IsDigit(body[k])

ExceedsLong(tok) ==
    /\ IsDecimal(tok)
    /\ IF Head(tok) = "-"
       THEN DigitsGreater(StripLeadingZeros(Tail(tok)), LongMinDigits)
       ELSE DigitsGreater(StripLeadingZeros(IF Head(tok) = "+" THEN Tail(tok) ELSE tok),
                          LongMaxDigits)

C9_IntConversionErrors ==
    [][(AwaitingValue /\ lastArg.argType = TypeInt /\ Token(i) # <<>>) =>
          /\ ~IsDecimal(Token(i)) =>
                 Failed(InvalidInteger) /\ accu'.intValues = accu.intValues
          /\ ExceedsLong(Token(i)) =>
                 Failed(IntegerOutOfRange) /\ accu'.intValues = accu.intValues]_vars

(***************************************************************************)
(* C10.  Parse processes the tokens strictly left to right and stops at    *)
(* the first error: a token is handled only after every token before it    *)
(* was handled without error, the failing step stores no value and adds no *)
(* operand, no token after the failing one is handled, the error reported  *)
(* is the one of the failing token, and Parse returns only when no token   *)
(* failed.                                                                 *)
(***************************************************************************)
C10_StepInOrder ==
    /\ pc = "parsing" /\ pc' = "parsing" =>
          /\ i' = i + 1
          /\ err' = err
          /\ i > 0 => RunTokens(LoopState, <<Token(i)>>).threw = NoError
    /\ pc = "parsing" /\ pc' = "parse_failed" =>
          /\ i' = i
          /\ i < argc
          /\ err.kind = NoError
          /\ err'.kind # NoError
          /\ ValueMapsUnchanged
          /\ accu'.operandValues = accu.operandValues
          /\ RunTokens(LoopState, <<Token(i)>>).threw = err'.kind
    /\ pc = "parsing" /\ pc' = "returned" => i = argc /\ err.kind = NoError
    /\ pc \in {"parse_failed", "returned"} => UNCHANGED vars

C10_Stopped ==
    /\ pc = "returned" => err.kind = NoError /\ i = argc
    /\ pc = "parse_failed" => err.kind # NoError /\ i < argc
    /\ pc = "parsing" => err.kind = NoError

C10_StopsAtFirstError == [](C10_Stopped) /\ [][C10_StepInOrder]_vars

\* Parse failed on the first token of a command line of two tokens: the
\* second one was never handled
C10_Witness ==
    /\ pc = "parse_failed"
    /\ i = 1
    /\ argc = 3

(***************************************************************************)
(* The reconstructed line and the offending byte, for the properties of    *)
(* the diagnostic.                                                         *)
(***************************************************************************)
\* the line Parse has written when it has appended the tokens 0..k-1
RECURSIVE LineUpTo(_)
LineUpTo(k) == IF k = 0 THEN <<>> ELSE LineAppend(LineUpTo(k - 1), Token(k - 1))

\* the tokens 0..k-1, each followed by one space except the last
RECURSIVE JoinedUpTo(_)
JoinedUpTo(k) ==
    IF k = 0 THEN <<>>
    ELSE IF k = 1 THEN Token(0)
    ELSE JoinedUpTo(k - 1) \o <<" ">> \o Token(k - 1)

\* the index in the reconstructed line (from 0) of the first byte of token k
TokenStart(k) == IF Len(LineUpTo(k)) > 0 THEN Len(LineUpTo(k)) + 1 ELSE 0

\* the index in the reconstructed line of the byte the error is about: the
\* unregistered letter for UnknownArgumentLetter, else the first byte of
\* the failing token
OffendingByte ==
    IF err.kind = UnknownArgumentLetter
    THEN TokenStart(i) + FirstUnknownLetter(Token(i)) - 1
    ELSE TokenStart(i)

(***************************************************************************)
(* C11.  Whenever Parse has failed, the caret of the diagnostic is in the  *)
(* column of the displayed window that shows the first byte of the         *)
(* offending token (for UnknownArgumentLetter: the offending letter of the *)
(* cluster), whatever the index of the token and the length of the line,   *)
(* also when token 0 is empty after trimming.                              *)
(***************************************************************************)
C11_CaretAtOffendingByte ==
    pc = "parse_failed" =>
        /\ err.shown.exception = "runtime_error"
        /\ err.shown.caret = OffendingByte - err.shown.start
        /\ err.shown.caret < Len(err.shown.text)
        /\ err.shown.text[err.shown.caret + 1] = err.line[OffendingByte + 1]

(***************************************************************************)
(* C12.  Whenever Parse has failed, the line handed to ThrowError is the   *)
(* concatenation of all tokens of argv, token 0 and the tokens after the   *)
(* failing one included, each trimmed, joined by exactly one space.        *)
(***************************************************************************)
C12_LineIsJoinedTokens ==
    pc = "parse_failed" => err.line = JoinedUpTo(argc)

(***************************************************************************)
(* C13.  Whenever Parse has failed, the window ThrowError selected lies    *)
(* inside the line (0 <= start, start + length <= |line|, length =         *)
(* min(W, |line|)), the caret column lies inside the window and the widths *)
(* of the dash ruler are not negative.                                     *)
(***************************************************************************)
C13_WindowInsideLine ==
    pc = "parse_failed" =>
        /\ 0 <= err.shown.start
        /\ err.shown.start + err.shown.length <= Len(err.line)
        /\ err.shown.length = Min(screenWidth, Len(err.line))
        /\ err.shown.caret < err.shown.length
        /\ err.shown.rulerLeft >= 0
        /\ err.shown.rulerRight >= 0

(***************************************************************************)
(* The role of each token of a command line that is parsed without error,  *)
(* by the rules of the parser's state machine: empty tokens are ignored,   *)
(* the token after one that names an Argument (as "--name" or by a letter  *)
(* of a cluster) is its value, every other token is met in Normal state.   *)
(* The long form of every definition that is no Option counts as naming an *)
(* Argument, that of an Operand included: Parse tests the class for Option *)
(* only.                                                                   *)
(***************************************************************************)
NamesArgument(tok) ==
    \/ /\ IsLongForm(tok)
       /\ \E d \in Registered : d.argClass # ClassOption /\ tok = LongForm(d)
    \/ /\ IsCluster(tok)
       /\ ClusterLetters(tok, ClassArgument) # {}

\* the indices, in order, of the tokens k.. that are met in Normal state
RECURSIVE NormalTokens(_, _)
NormalTokens(k, awaiting) ==
    IF k >= argc THEN <<>>
    ELSE IF Token(k) = <<>> THEN NormalTokens(k + 1, awaiting)
    ELSE IF awaiting THEN NormalTokens(k + 1, FALSE)
    ELSE <<k>> \o NormalTokens(k + 1, NamesArgument(Token(k)))

\* the token names the Option d, as "--name" or by its letter in a cluster
NamesOption(tok, d) ==
    \/ tok = LongForm(d)
    \/ /\ IsCluster(tok)
       /\ d.letter # NoLetter
       /\ \E j \in 2..Len(tok) : tok[j] = d.letter

RegisteredOptions == {d \in Registered : d.argClass = ClassOption}

\* the Option d was activated by a token of the command line
Activated(d) ==
    \E n \in 1..Len(NormalTokens(1, FALSE)) : NamesOption(Token(NormalTokens(1, FALSE)[n]), d)

(***************************************************************************)
(* C14.  After a successful Parse, IsHelpRequested is true exactly when    *)
(* (a) no Operand is declared, no Option was activated and no Option or    *)
(* Argument is registered, or (b) an Option named help was activated, by   *)
(* "--help" or by its letter, alone or inside a cluster.                   *)
(***************************************************************************)
C14_NothingDefined ==
    /\ \A d \in Registered : d.argClass # ClassOperand
    /\ \A d \in RegisteredOptions : ~Activated(d)
    /\ \A d \in Registered : d.argClass = ClassOperand

C14_HelpActivated ==
    \E d \in RegisteredOptions : d.name = HelpName /\ Activated(d)

C15_HelpWhenNothingTyped ==
    (pc = "returned" /\ argc = 1) => IsHelpRequested(accu)

(***************************************************************************)
(* C16.  Parse only reads the argument vector of the caller: no step of    *)
(* Parse, whether it goes on, returns or raises, changes a pointer of argv *)
(* or a byte of a string of argv.                                          *)
(***************************************************************************)
C16_ArgvUnchanged == [][argv' = argv]_vars

(***************************************************************************)
(* C17.  After a successful Parse the operand sequence is exactly the      *)
(* tokens met in Normal state that do not start with "-" or are a lone     *)
(* "-", in the order of the command line.                                  *)
(***************************************************************************)
IsBare(tok) == tok # <<>> /\ (tok[1] # "-" \/ Len(tok) = 1)

RECURSIVE BareTokens(_)
BareTokens(ks) ==
    IF ks = <<>> THEN <<>>
    ELSE IF IsBare(Token(Head(ks))) THEN <<Token(Head(ks))>> \o BareTokens(Tail(ks))
    ELSE BareTokens(Tail(ks))

C17_OperandsInOrder ==
    pc = "returned" => accu.operandValues = BareTokens(NormalTokens(1, FALSE))

\* Parse returned two different operands, one of them a lone dash
C17_Witness ==
    /\ pc = "returned"
    /\ Len(accu.operandValues) = 2
    /\ accu.operandValues[1] # accu.operandValues[2]
    /\ \E n \in 1..2 : accu.operandValues[n] = <<"-">>

(***************************************************************************)
(* The lines of FormatLine.                                                *)
(***************************************************************************)
\* the bytes FormatLine wrote for the column in a row: the cell without the
\* paddings
CellLine(row, column) ==
    SubSeq(row[column], leftPaddings[column] + 1,
           Len(row[column]) - rightPaddings[column])

\* bytes starts with an attribute marker ESC [ d m
StartsWithMarker(bytes) ==
    /\ Len(bytes) >= 4
    /\ bytes[1] = ESC
    /\ bytes[2] = "["
    /\ bytes[3] \in AttributeDigits
    /\ bytes[4] = "m"

\* the visible columns of a line: attribute markers count 0, a UTF-8
\* character counts 1 whatever its number of bytes
RECURSIVE VisibleColumns(_)
VisibleColumns(bytes) ==
    IF bytes = <<>> THEN 0
    ELSE IF StartsWithMarker(bytes) THEN VisibleColumns(Drop(bytes, 4))
    ELSE IF bytes[1] \in Utf8Continuation THEN VisibleColumns(Tail(bytes))
    ELSE 1 + VisibleColumns(Tail(bytes))

\* the rows are being written or have been written
Rendering == pc \in {"render", "formatted"} /\ Len(buff) > 0

\* C18: every line FormatLine emits for a column of width L has exactly L
\* visible columns (attribute markers counting 0, a UTF-8 character
\* counting 1, padding included), also when the line is broken at a soft
\* hyphen and a '-' is written.
C18_LineHasLimitColumns ==
    Rendering =>
        \A column \in 1..columns :
            VisibleColumns(CellLine(buff[Len(buff)], column)) = width[column]

\* C19: every FormatLine call of ColumnFormat on a column whose cursor is
\* before the end of its text moves that cursor forward.
C19_CursorAdvances ==
    [][pc = "render" =>
          \A column \in 1..columns :
              cursors[column] < Len(texts[column]) =>
                  cursors'[column] > cursors[column]]_vars

\* the visible text of bytes without its white space: attribute markers,
\* blanks, control bytes and the bytes of dropped are left out
RECURSIVE Solid(_, _)
Solid(bytes, dropped) ==
    IF bytes = <<>> THEN <<>>
    ELSE IF StartsWithMarker(bytes) THEN Solid(Drop(bytes, 4), dropped)
    ELSE IF bytes[1] \in {" ", TAB, ESC, GS} \cup dropped
    THEN Solid(Tail(bytes), dropped)
    ELSE <<bytes[1]>> \o Solid(Tail(bytes), dropped)

\* the lines of a column in the rows from row k on, one after the other
RECURSIVE ColumnLines(_, _)
ColumnLines(column, k) ==
    IF k > Len(buff) THEN <<>>
    ELSE CellLine(buff[k], column) \o ColumnLines(column, k + 1)

\* C20: when the cursor of a column has reached the end of its text, the
\* lines emitted for it, one after the other and without padding, hyphens
\* and attribute markers, are the visible text of the column in order, up
\* to white space.
C20_NothingLost ==
    pc = "formatted" =>
        \A column \in 1..columns :
            Solid(ColumnLines(column, 1), {"-"})
                = Solid(texts[column], {"-", softHyphen})

(***************************************************************************)
(* Soft hyphens in the lines of FormatLine.                                *)
(***************************************************************************)
\* bytes without the blanks at its end (the padding of a line)
RECURSIVE RightStrip(_)
RightStrip(bytes) ==
    IF bytes # <<>> /\ bytes[Len(bytes)] = " "
    THEN RightStrip(SubSeq(bytes, 1, Len(bytes) - 1))
    ELSE bytes

\* how many bytes of bytes are the byte c
Count(bytes, c) == Cardinality({k \in 1..Len(bytes) : bytes[k] = c})

\* the column has a soft hyphen and its text holds no '-' of its own
Hyphenated(column) ==
    /\ softHyphen # NUL
    /\ \A k \in 1..Len(texts[column]) : texts[column][k] # "-"

\* the cursor c of the column stands on a soft hyphen: the line that was
\* written ends at it
OnSoftHyphen(column, c) ==
    /\ c < Len(texts[column])
    /\ texts[column][c + 1] = softHyphen

\* the line ends with one '-' before its padding and holds no other '-'
\* and no soft hyphen byte
HyphenAtEnd(l) ==
    /\ RightStrip(l) # <<>>
    /\ RightStrip(l)[Len(RightStrip(l))] = "-"
    /\ Count(l, "-") = 1
    /\ Count(l, softHyphen) = 0

\* the line holds no '-' and no soft hyphen byte
NoHyphen(l) == Count(l, "-") = 0 /\ Count(l, softHyphen) = 0

\* the columns taken by the bytes of text from offset from up to offset to:
\* 0 for an attribute marker, for a soft hyphen and for the continuation
\* bytes of a UTF-8 character, 1 for every other byte
RECURSIVE TextColumns(_, _, _)
TextColumns(text, from, to) ==
    IF from >= to THEN 0
    ELSE IF IsAttribute(text, from) THEN TextColumns(text, from + 4, to)
    ELSE IF text[from + 1] \in Utf8Continuation \cup ({softHyphen} \ {NUL})
    THEN TextColumns(text, from + 1, to)
    ELSE 1 + TextColumns(text, from + 1, to)

\* The statement of C21 as it was made: a line that ends at a soft hyphen
\* ends with a '-', every other line holds no byte for a soft hyphen.
C21_Original ==
    [][pc = "render" =>
          \A column \in 1..columns :
              (Hyphenated(column) /\ cursors[column] < Len(texts[column])) =>
                  IF OnSoftHyphen(column, cursors'[column])
                  THEN HyphenAtEnd(CellLine(buff'[Len(buff')], column))
                  ELSE NoHyphen(CellLine(buff'[Len(buff')], column))]_vars

\* C21: a line that ends at a soft hyphen ends with a '-' before its
\* padding, unless the text before the soft hyphen fills the line (the
\* forced break of an overlong word at the start of a line, for which no
\* byte is written); every other line, and every soft hyphen that is not
\* at the end of a line, produces no byte.
C21_SoftHyphenRendering ==
    [][pc = "render" =>
          \A column \in 1..columns :
              (Hyphenated(column) /\ cursors[column] < Len(texts[column])) =>
                  IF OnSoftHyphen(column, cursors'[column])
                  THEN \/ HyphenAtEnd(CellLine(buff'[Len(buff')], column))
                       \/ /\ NoHyphen(CellLine(buff'[Len(buff')], column))
                          /\ TextColumns(texts[column],
                                         LeftTrimText(texts[column], cursors[column]),
                                         cursors'[column])
                                 = width[column]
                  ELSE NoHyphen(CellLine(buff'[Len(buff')], column))]_vars

\* a row was written whose line ends with the '-' of a soft hyphen, after
\* a first part of a word, and another soft hyphen of the text left no byte
C21_Witness ==
    /\ Rendering
    /\ columns = 1
    /\ Hyphenated(1)
    /\ Count(texts[1], softHyphen) >= 2
    /\ OnSoftHyphen(1, cursors[1])
    /\ HyphenAtEnd(CellLine(buff[Len(buff)], 1))
    /\ Len(RightStrip(CellLine(buff[Len(buff)], 1))) > 5

(***************************************************************************)
(* The non-breaking space.                                                 *)
(***************************************************************************)
\* the bytes of text from offset from up to offset to
Segment(text, from, to) == SubSeq(text, from + 1, to)

\* the segment holds letters and non-breaking spaces only
PlainSegment(seg) == \A k \in 1..Len(seg) : seg[k] \in {"a", "b", GS}

\* the segment as it is to be rendered: a space for every non-breaking space
Rendered(seg) == [k \in 1..Len(seg) |-> IF seg[k] = GS THEN " " ELSE seg[k]]

\* the bytes of the line after the attribute marker at its start
AfterMarker(l) == Drop(l, 4)

\* the bytes l start with the bytes seg
StartsWith(l, seg) == Len(l) >= Len(seg) /\ SubSeq(l, 1, Len(seg)) = seg

\* the cursor c splits the text of the column at a non-breaking space:
\* a line ends or the next line starts at it
SplitsAtGS(column, c) ==
    /\ 0 < c
    /\ c < Len(texts[column])
    /\ (texts[column][c] = GS \/ texts[column][c + 1] = GS)

\* C22: every non-breaking space of the text is rendered as one space, and
\* no line ends or starts at it: a call never returns with its cursor next
\* to one, and a call that takes letters and non-breaking spaces writes
\* them in order, a space for every non-breaking space.
C22_NonBreakingSpace ==
    [][pc = "render" =>
          \A column \in 1..columns :
              cursors[column] < Len(texts[column]) =>
                  /\ ~SplitsAtGS(column, cursors'[column])
                  /\ PlainSegment(Segment(texts[column], cursors[column],
                                          cursors'[column])) =>
                         StartsWith(AfterMarker(CellLine(buff'[Len(buff')], column)),
                                    Rendered(Segment(texts[column], cursors[column],
                                                     cursors'[column])))]_vars

(***************************************************************************)
(* Multi-byte characters.                                                  *)
(***************************************************************************)
Utf8Lead == Utf8Lead2 \cup Utf8Lead3 \cup Utf8Lead4

\* the number of continuation bytes that the lead byte c announces
Utf8Length(c) == IF c \in Utf8Lead2 THEN 1 ELSE IF c \in Utf8Lead3 THEN 2 ELSE 3

\* the positions of bytes at which a whole multi-byte character starts
WholeCharacters(bytes) ==
    {k \in 1..Len(bytes) :
        /\ bytes[k] \in Utf8Lead
        /\ k + Utf8Length(bytes[k]) <= Len(bytes)
        /\ \A j \in 1..Utf8Length(bytes[k]) : bytes[k + j] \in Utf8Continuation}

\* the positions of bytes that hold a lead byte
LeadBytes(bytes) == {k \in 1..Len(bytes) : bytes[k] \in Utf8Lead}

\* the cursor c of the column is on a character boundary
OnBoundary(column, c) ==
    c < Len(texts[column]) => texts[column][c + 1] \notin Utf8Continuation

\* C23: no call returns with its cursor inside a multi-byte character, all
\* bytes of every multi-byte character the call went past are written to
\* the line of that call, and the characters the call went past take at
\* most as many columns as the line has, one for each.
C23_CharactersWhole ==
    [][pc = "render" =>
          \A column \in 1..columns :
              cursors[column] < Len(texts[column]) =>
                  /\ OnBoundary(column, cursors'[column])
                  /\ Cardinality(WholeCharacters(CellLine(buff'[Len(buff')], column)))
                         = Cardinality(LeadBytes(Segment(texts[column], cursors[column],
                                                         cursors'[column])))
                  /\ Cardinality(LeadBytes(Segment(texts[column], cursors[column],
                                                   cursors'[column])))
                         <= width[column]]_vars

(***************************************************************************)
(* Attribute markers.                                                      *)
(***************************************************************************)
\* the attribute markers and the visible ASCII characters of bytes, in
\* order: blanks, control bytes, bytes above 0x7F and the bytes of dropped
\* are left out, a marker is kept with its four bytes
RECURSIVE Marked(_, _)
Marked(bytes, dropped) ==
    IF bytes = <<>> THEN <<>>
    ELSE IF StartsWithMarker(bytes)
    THEN SubSeq(bytes, 1, 4) \o Marked(Drop(bytes, 4), dropped)
    ELSE IF bytes[1] \in {" ", TAB, ESC, GS} \cup HighBytes \cup dropped
    THEN Marked(Tail(bytes), dropped)
    ELSE <<bytes[1]>> \o Marked(Tail(bytes), dropped)

\* the lines of a column in the rows from row k on, each without the
\* attribute marker that FormatLine writes at its start
RECURSIVE ColumnText(_, _)
ColumnText(column, k) ==
    IF k > Len(buff) THEN <<>>
    ELSE AfterMarker(CellLine(buff[k], column)) \o ColumnText(column, k + 1)

\* every ESC byte of the line starts an attribute marker
MarkersWhole(l) ==
    \A k \in 1..Len(l) : l[k] = ESC => StartsWithMarker(Drop(l, k - 1))

\* C24: the attribute markers ESC [ d m (d in 0, 1, 2, 4, 5, 7, 8) of the
\* text that the cursor of a column went past are in its lines byte for
\* byte, once each and in the order of the text among the visible
\* characters; no line holds a part of a marker; a line without a hyphen
\* has as many columns as the column is wide, the markers counting 0; and
\* ESC [ 3 m, ESC [ 6 m and ESC [ 9 m are no markers: their ESC is not
\* written and the attribute of the column is never 3, 6 or 9.
C24_AttributeMarkers ==
    Rendering =>
        \A column \in 1..columns :
            /\ Marked(ColumnText(column, 1), {"-"})
                   = Marked(Segment(texts[column], 0, cursors[column]),
                            {"-", softHyphen})
            /\ MarkersWhole(CellLine(buff[Len(buff)], column))
            /\ Count(CellLine(buff[Len(buff)], column), "-") = 0 =>
                   VisibleColumns(CellLine(buff[Len(buff)], column)) = width[column]
            /\ Digits[textAttributes[column] + 1] \in AttributeDigits

\* a text with two attribute markers and a sequence that is none was
\* written on more than one line
C24_Witness ==
    /\ pc = "formatted"
    /\ columns = 1
    /\ Len(buff) >= 3
    /\ Len(Marked(texts[1], {})) > Len(Solid(texts[1], {})) + 4
    /\ \E k \in 1..Len(texts[1]) - 2 :
           texts[1][k] = ESC /\ texts[1][k + 2] \in {"3", "6", "9"}

(***************************************************************************)
(* The widths of the columns.                                              *)
(***************************************************************************)
\* the screen width less the paddings of the call
UsableWidth == screenWidth - Sum(leftPaddings) - Sum(rightPaddings)

\* n / d rounded to the nearest whole number, a half being rounded up
Rounded(n, d) == (2 * n + d) \div (2 * d)

\* C25: the width of every column is the usable width times the weight of
\* the column over the sum of the weights, rounded: 5 and 5 for the weights
\* 1 and 1 on 10 characters, 31 and 47 for the weights 40 and 60 on the 78
\* characters of the help table.
C25_WidthsRounded ==
    pc \in {"render", "formatted"} =>
        \A column \in 1..columns :
            width[column]
                = Rounded(UsableWidth * widthWeights[column], Sum(widthWeights))

(***************************************************************************)
(* The calls that are refused.                                             *)
(***************************************************************************)
\* the call has one of the faults for which a layout error is raised
Unrenderable ==
    \/ columns < 1
    \/ Len(widthWeights) # columns
    \/ Len(texts) # columns
    \/ Len(leftPaddings) # columns
    \/ Len(rightPaddings) # columns
    \/ \E column \in 1..columns : widthWeights[column] <= 0
    \/ \E column \in 1..columns : leftPaddings[column] < 0
    \/ \E column \in 1..columns : rightPaddings[column] < 0
    \/ UsableWidth < columns
    \/ \E column \in 1..columns :
           Rounded(UsableWidth * widthWeights[column], Sum(widthWeights)) < 1

\* C26: a call with fewer than one column, with a vector that has not one
\* element for each column, with a weight that is not positive, with a
\* negative padding, with a usable width below the number of columns or
\* with a column whose width rounds to less than 1 ends with a layout error
\* and without output; a call that is rendered has widths of at least 1.
C26_LayoutErrors ==
    pc \in {"format_failed", "render", "formatted"} =>
        /\ Unrenderable =>
               /\ pc = "format_failed"
               /\ err.kind \in {TooFewColumns, BadWidthWeights, BadTexts,
                                BadLeftPaddings, BadRightPaddings, BadWeight,
                                NegativeLeftPadding, NegativeRightPadding,
                                WindowTooSmall}
               /\ buff = <<>>
        /\ pc # "format_failed" =>
               \A column \in 1..columns : width[column] >= 1

\* a call of two columns on two characters was refused because the width of
\* the first column rounds to 0
C26_Witness ==
    /\ pc = "format_failed"
    /\ err.kind = WindowTooSmall
    /\ columns = 2
    /\ UsableWidth = 2
    /\ Rounded(UsableWidth * widthWeights[1], Sum(widthWeights)) = 0
    /\ buff = <<>>

(***************************************************************************)
(* The breakAll parameter.                                                 *)
(***************************************************************************)
\* C27: in a call with breakAll = TRUE the soft hyphen is switched off: the
\* soft hyphen bytes of the text a line takes are written in the line like
\* any other character, and no '-' is written for them.
C27_BreakAllDisablesSoftHyphen ==
    [][(pc = "render" /\ breakAll /\ softHyphen # NUL) =>
          \A column \in 1..columns :
              (/\ cursors[column] < Len(texts[column])
               /\ \A k \in 1..Len(texts[column]) : texts[column][k] # "-") =>
                  /\ Count(CellLine(buff'[Len(buff')], column), softHyphen)
                         = Count(SubSeq(texts[column], cursors[column] + 1,
                                        cursors'[column]), softHyphen)
                  /\ Count(CellLine(buff'[Len(buff')], column), "-") = 0]_vars

(***************************************************************************)
(* The value of an Argument.                                               *)
(***************************************************************************)
\* C28: while a value is awaited, the very next token, whatever it is, is
\* taken as the value of the pending Argument: the step stores what SetValue
\* makes of the token and the parser awaits no value any more, or it ends
\* the parse with the error of SetValue; no later token becomes the value.
C28_NextTokenIsValue ==
    [][AwaitingValue =>
          IF SetValue(accu, errno, lastArg, StringOf(argv'[i + 1])).threw = NoError
          THEN /\ pc' = "parsing"
               /\ ~expectArgValue'
               /\ accu' = SetValue(accu, errno, lastArg, StringOf(argv'[i + 1])).accu
          ELSE /\ pc' = "parse_failed"
               /\ err'.kind
                      = SetValue(accu, errno, lastArg, StringOf(argv'[i + 1])).threw]_vars

(***************************************************************************)
(* Trimming.                                                               *)
(***************************************************************************)
\* a byte that trimming is to remove: a space or a non-printable byte
IsBlank(c) == c = " " \/ ~IsPrint(c)

\* bytes without its leading and trailing spaces and non-printable bytes
RECURSIVE Stripped(_)
Stripped(bytes) ==
    IF bytes = <<>> THEN <<>>
    ELSE IF IsBlank(bytes[1]) THEN Stripped(Tail(bytes))
    ELSE IF IsBlank(bytes[Len(bytes)]) THEN Stripped(SubSeq(bytes, 1, Len(bytes) - 1))
    ELSE bytes

\* C29: the token an iteration of Parse works on is the element of the
\* argument vector without its leading and trailing spaces and
\* non-printable bytes, so that "--help " is handled like "--help" and an
\* element of such bytes only is empty.
C29_TokenIsStripped ==
    [][(pc = "parsing" /\ i < argc) =>
          StringOf(argv'[i + 1]) = Stripped(StringOf(argv[i + 1]))]_vars

(***************************************************************************)
(* The int of the ValueStore.                                              *)
(***************************************************************************)
\* the magnitudes of the largest and of the smallest 32-bit int
IntMaxDigits == <<"2", "1", "4", "7", "4", "8", "3", "6", "4", "7">>
IntMinDigits == <<"2", "1", "4", "7", "4", "8", "3", "6", "4", "8">>

\* the digits of a decimal token without sign and leading zeros
Magnitude(tok) ==
    StripLeadingZeros(IF Head(tok) \in {"+", "-"} THEN Tail(tok) ELSE tok)

\* the number of the decimal token is outside the range of a 32-bit int
ExceedsInt(tok) ==
    IF Head(tok) = "-" THEN DigitsGreater(Magnitude(tok), IntMinDigits)
    ELSE DigitsGreater(Magnitude(tok), IntMaxDigits)

\* the number a decimal token within that range denotes
TokenValue(tok) ==
    IF Head(tok) = "-" THEN 0 - DigitsNat(Magnitude(tok), 0)
    ELSE DigitsNat(Magnitude(tok), 0)

\* C30: a decimal value token of an Int Argument whose number is outside
\* the range of the 32-bit int fails with IntegerOutOfRange and stores
\* nothing; a token that is accepted for a name without a stored value
\* stores the number it denotes.
C30_IntStoredExactly ==
    [][(AwaitingValue /\ lastArg.argType = TypeInt /\ IsDecimal(Token(i))) =>
          /\ ExceedsInt(Token(i)) =>
                 Failed(IntegerOutOfRange) /\ accu'.intValues = accu.intValues
          /\ (/\ ~ExceedsInt(Token(i))
              /\ pc' = "parsing"
              /\ lastArg.name \notin DOMAIN accu.intValues) =>
                 /\ lastArg.name \in DOMAIN accu'.intValues
                 /\ accu'.intValues[lastArg.name] = TokenValue(Token(i))]_vars

(***************************************************************************)
(* The window of the diagnostic.                                           *)
(***************************************************************************)
\* the window of the diagnostic of a failed Parse, for the head budget
\* budget: from 0 when the position is below the budget or the line is
\* shorter than the screen, else at the end of the line when less than the
\* tail budget follows the position, else with the position at the budget
WindowByBudget(budget) ==
    IF err.position < budget \/ Len(err.line) < screenWidth
    THEN err.shown.start = 0 /\ err.shown.caret = err.position + 1
    ELSE IF Len(err.line) - err.position < screenWidth - budget
    THEN err.shown.start = Len(err.line) - screenWidth
    ELSE /\ err.shown.start = err.position - budget
         /\ err.shown.caret = budget + 1

\* 2W/3 rounded up: 54 on the screen of 80 characters
CeilBudget ==
    CHOOSE h \in 0..screenWidth : 3 * h >= 2 * screenWidth /\ 3 * (h - 1) < 2 * screenWidth

\* 0.666 W rounded down: 53 on the screen of 80 characters
FloorBudget ==
    CHOOSE h \in 0..screenWidth :
        1000 * h <= 666 * screenWidth /\ 1000 * (h + 1) > 666 * screenWidth

\* C31 as stated: the window starts at 0 exactly when the position is below
\* the head budget of 2W/3 rounded up or the line is shorter than W; else it
\* is right-aligned when less than W less that budget follows the position,
\* and else the caret is at that budget.
C31_Original ==
    pc = "parse_failed" =>
        /\ WindowByBudget(CeilBudget)
        /\ err.shown.start = 0
               <=> (err.position < CeilBudget \/ Len(err.line) < screenWidth)

\* C31: the head budget is 0.666 W rounded down, 53 for W = 80, and the tail
\* budget is W less the head budget; the window starts at 0 when the
\* position is below the head budget or the line is shorter than W, else it
\* is right-aligned when less than the tail budget follows the position, and
\* else the caret is at the head budget.
C31_WindowCases ==
    pc = "parse_failed" => WindowByBudget(FloorBudget)

\* a diagnostic with the caret at the head budget, on a line that goes on
\* for more than the tail budget
C31_Witness ==
    /\ pc = "parse_failed"
    /\ err.position >= FloorBudget
    /\ Len(err.line) - err.position >= screenWidth - FloorBudget
    /\ err.shown.start = err.position - FloorBudget
    /\ err.shown.start > 0

(***************************************************************************)
(* The end of Parse.                                                       *)
(***************************************************************************)
\* C32: Parse does not return while an Argument awaits its value: when the
\* argument vector ends after the token that names the Argument (only
\* empty tokens, if any, follow it), Parse fails.
C32_NoReturnWhileAwaiting ==
    pc = "returned" => ~expectArgValue

\* an Argument registered without a default
IsMandatory(d) == d.argClass = ClassArgument /\ ~d.optional

\* C33: when Parse has returned, every Argument registered without a
\* default has a value in the map of its type; a command line without a
\* value for such an Argument is not parsed successfully.
C33_MandatoryHasValue ==
    pc = "returned" =>
        \A d \in Registered : IsMandatory(d) => HasValue(accu, d)

(***************************************************************************)
(* The keys of the Value Store.                                            *)
(***************************************************************************)
\* C34: every key of the string, int and double map is the long name of a
\* registered Argument of that type, and every activated option name is the
\* name of a registered Option; the name of an Operand is never a key.
C34_KeysAreArguments ==
    /\ \A t \in {TypeString, TypeInt, TypeDouble} :
           \A n \in DOMAIN ValueMap(accu, t) :
               /\ n \in DOMAIN accu.argsByName
               /\ accu.argsByName[n].argClass = ClassArgument
               /\ accu.argsByName[n].argType = t
    /\ \A n \in accu.optionNames :
           /\ n \in DOMAIN accu.argsByName
           /\ accu.argsByName[n].argClass = ClassOption

(***************************************************************************)
(* A definition call that fails.                                           *)
(***************************************************************************)
\* the definitions with a letter in the long-name index and the definitions
\* of the short-letter index
NamedWithLetter ==
    {accu.argsByName[n] : n \in {m \in DOMAIN accu.argsByName :
                                     accu.argsByName[m].letter # NoLetter}}

Lettered == {accu.argsByLetter[c] : c \in DOMAIN accu.argsByLetter}

\* C35: a definition call that fails with DuplicateDefinition, for a
\* duplicate long name or for a duplicate letter, leaves the Registry and
\* the Value Store as they were, and the two indexes hold the same
\* definitions.
C35_FailedDefinitionChangesNothing ==
    [][(pc = "setup" /\ pc' = "setup_failed") =>
          /\ accu' = accu
          /\ NamedWithLetter' = Lettered']_vars

(***************************************************************************)
(* The attribute re-opened at the start of a line.                         *)
(***************************************************************************)
\* the attribute in effect in text at the byte offset cursor: the digit of
\* the last attribute marker that ends at or before the cursor, 0 if there
\* is none
RECURSIVE AttributeAt(_, _, _, _)
AttributeAt(text, cursor, k, attribute) ==
    IF k + 4 > cursor THEN attribute
    ELSE IF StartsWithMarker(Drop(text, k))
    THEN AttributeAt(text, cursor, k + 4, DigitVal(text[k + 3]))
    ELSE AttributeAt(text, cursor, k + 1, attribute)

\* C36: the marker that a FormatLine call writes at the start of its line
\* is the marker of the attribute in effect in the text at the cursor the
\* call starts from, also when the call before it took a word with a marker
\* back to this line.
C36_ReopenedAttribute ==
    [][pc = "render" =>
          \A column \in 1..columns :
              cursors[column] < Len(texts[column]) =>
                  SubSeq(CellLine(buff'[Len(buff')], column), 1, 4)
                      = AttributeMarker(AttributeAt(texts[column], cursors[column],
                                                    0, 0))]_vars

(***************************************************************************)
(* The width of a row.                                                     *)
(***************************************************************************)
\* the columns of a row: the paddings and the width of every column
RowWidth == Sum(leftPaddings) + Sum(width) + Sum(rightPaddings)

\* C37: the columns of an accepted call do not overflow the screen: the
\* paddings and the widths of all columns together are at most the screen
\* width, the widths together at most the usable width.
C37_RowFitsScreen ==
    pc \in {"render", "formatted"} =>
        /\ RowWidth <= screenWidth
        /\ Sum(width) <= UsableWidth

(***************************************************************************)
(* The error indicator and the typed conversions.                          *)
(***************************************************************************)
\* C38: the outcome of converting the token of an Int or Double Argument
\* does not depend on the error indicator that earlier operations left:
\* whatever errno holds when the token is read, the step stores the value or
\* fails exactly as it does with a clear errno, so a well-formed number is
\* not rejected for a stale error indicator.
C38_OutcomeIgnoresErrno ==
    [][(AwaitingValue /\ lastArg.argType \in {TypeInt, TypeDouble}) =>
          IF SetValue(accu, ENone, lastArg, StringOf(argv'[i + 1])).threw = NoError
          THEN /\ pc' = "parsing"
               /\ accu' = SetValue(accu, ENone, lastArg, StringOf(argv'[i + 1])).accu
          ELSE /\ pc' = "parse_failed"
               /\ err'.kind
                      = SetValue(accu, ENone, lastArg, StringOf(argv'[i + 1])).threw]_vars

(***************************************************************************)
(* ServerChallenge (ServerChallenge.hpp): the constructor, which parses    *)
(* the challenge line of the server, one step per iteration of its loop    *)
(* over the bytes of the message, and Authenticate, which builds the       *)
(* response.  pc is "received" before the constructor runs, "scanning" in  *)
(* its loop, "constructed" when it returned, "challenge_failed" when it    *)
(* threw, "authenticated" and "auth_failed" after Authenticate.            *)
(***************************************************************************)
EmptyMessage == "EmptyMessage"
TooShortSalt == "TooShortSalt"
InvalidBackend == "InvalidBackend"
InvalidVersion == "InvalidVersion"
EmptyProtocol == "EmptyProtocol"
NotLittleEndian == "NotLittleEndian"
EmptyPasswordHashAlgo == "EmptyPasswordHashAlgo"
TooFewFields == "TooFewFields"
UnsupportedProtocol == "UnsupportedProtocol"

Merovingian == <<"m", "e", "r", "o", "v", "i", "n", "g", "i", "a", "n">>
Monetdb == <<"m", "o", "n", "e", "t", "d", "b">>
Mserver == <<"m", "s", "e", "r", "v", "e", "r">>
LIT == <<"L", "I", "T">>
SHA1 == <<"S", "H", "A", "1">>
SHA256 == <<"S", "H", "A", "2", "5", "6">>
SHA512 == <<"S", "H", "A", "5", "1", "2">>

\* the outcome of a field case: the object, errno and the error thrown
FieldOutcome(c, en, threw) == [challenge |-> c, errno |-> en, threw |-> threw]

\* case 2 after "this->version = strtol(tmp.c_str(), &endPtr, 10)" returned
\* r: errno is read, and nothing cleared it before the call
VersionCase(c, en, tmp, r) ==
    FieldOutcome([c EXCEPT !.version = r.result],
                 IF r.erange THEN ERANGE ELSE en,
                 IF (IF r.erange THEN ERANGE ELSE en) # ENone \/ r.end < Len(tmp)
                 THEN InvalidVersion ELSE NoError)

\* "switch (field)" on the bytes from start to pos
FieldCase(c, en, fld, text) ==
    CASE fld = 0 ->
           FieldOutcome([c EXCEPT !.salt = text], en,
                        IF Len(text) < 6 THEN TooShortSalt ELSE NoError)
      [] fld = 1 ->
           FieldOutcome([c EXCEPT !.backend = text], en,
                        IF text # Merovingian /\ text # Monetdb /\ text # Mserver
                        THEN InvalidBackend ELSE NoError)
      [] fld = 2 -> VersionCase(c, en, text, Strtol(text))
      [] fld = 3 ->
           IF Len(text) < 1 THEN FieldOutcome(c, en, EmptyProtocol)
           ELSE FieldOutcome([c EXCEPT !.protocols = @ \cup {text}], en, NoError)
      [] fld = 4 ->
           FieldOutcome([c EXCEPT !.endianness = text], en,
                        IF text # LIT THEN NotLittleEndian ELSE NoError)
      [] fld = 5 ->
           FieldOutcome([c EXCEPT !.passwordHashAlgo = text], en,
                        IF Len(text) < 1 THEN EmptyPasswordHashAlgo ELSE NoError)
      [] OTHER -> FieldOutcome(c, en, NoError)

\* endPos - msg.c_str()
EndPos == Len(msg) - 1

\* "*pos == ':' || pos == endPos - 1 || *pos == '\n' || *pos == ','"
EndsField == msg[pos + 1] = ":" \/ pos = EndPos - 1 \/ msg[pos + 1] = LF \/ msg[pos + 1] = ","

\* the constructor is entered: the test of the length and the locals
ServerChallengeBegin ==
    /\ pc = "received"
    /\ IF Len(msg) < 1
       THEN /\ pc' = "challenge_failed"
            /\ err' = [NoErr EXCEPT !.kind = EmptyMessage]
       ELSE /\ pc' = "scanning"
            /\ err' = err
    /\ pos' = 0
    /\ start' = 0
    /\ field' = 0
    /\ challenge' = NewChallenge
    /\ UNCHANGED <<accu, argv, errno, i, expectArgValue, lastArg, line>>
    /\ UNCHANGED columnVars
    /\ UNCHANGED <<msg, authArgs, response>>

\* what follows the loop: "if (field < 5) throw", else the constructor
\* returns
ServerChallengeAfterLoop ==
    IF field < 5
    THEN /\ pc' = "challenge_failed"
         /\ err' = [NoErr EXCEPT !.kind = TooFewFields]
    ELSE /\ pc' = "constructed"
         /\ err' = err

\* the end of an iteration at a byte that ends a field, r being the outcome
\* of the field case
ServerChallengeField(r) ==
    /\ challenge' = r.challenge
    /\ errno' = r.errno
    /\ IF r.threw # NoError
       THEN /\ pc' = "challenge_failed"
            /\ err' = [NoErr EXCEPT !.kind = r.threw]
            /\ UNCHANGED <<pos, start, field>>
       ELSE IF msg[pos + 1] = ":" /\ field >= 5
       THEN /\ ServerChallengeAfterLoop
            /\ UNCHANGED <<pos, start, field>>
       ELSE /\ field' = IF msg[pos + 1] = ":" THEN field + 1 ELSE field
            /\ start' = pos + 1
            /\ pos' = pos + 1
            /\ UNCHANGED <<pc, err>>

\* one iteration of "for(; pos < endPos; pos++)"
ServerChallengeByte ==
    /\ pc = "scanning"
    /\ pos < EndPos
    /\ IF EndsField
       THEN ServerChallengeField(FieldCase(challenge, errno, field,
                                           SubSeq(msg, start + 1, pos)))
       ELSE /\ pos' = pos + 1
            /\ UNCHANGED <<pc, err, errno, start, field, challenge>>
    /\ UNCHANGED <<accu, argv, i, expectArgValue, lastArg, line>>
    /\ UNCHANGED columnVars
    /\ UNCHANGED <<msg, authArgs, response>>

\* the loop ends at endPos
ServerChallengeEnd ==
    /\ pc = "scanning"
    /\ pos >= EndPos
    /\ ServerChallengeAfterLoop
    /\ UNCHANGED <<accu, argv, errno, i, expectArgValue, lastArg, line>>
    /\ UNCHANGED columnVars
    /\ UNCHANGED challengeVars

\* Sha512, Sha256 and Sha1: the hexadecimal digits BinToHex makes of the
\* digest.  The digest of OpenSSL is not computed: the digits are written
\* as the name of the function around its input, so that different
\* functions and different inputs give different digits.
Sha512(data) == <<"sha512(">> \o data \o <<")">>
Sha256(data) == <<"sha256(">> \o data \o <<")">>
Sha1(data) == <<"sha1(">> \o data \o <<")">>

\* what Authenticate writes to buff
AuthenticateResponse(c, user, password, database, proto, enableFileTransfer) ==
    c.endianness \o <<":">> \o user \o <<":">> \o <<"{", "S", "H", "A", "1", "}">>
        \o Sha1(Sha512(password) \o c.salt)
        \o <<":", "s", "q", "l", ":">> \o database \o <<":">>
        \o (IF enableFileTransfer
            THEN <<"F", "I", "L", "E", "T", "R", "A", "N", "S">> ELSE <<>>)
        \o <<LF>>

Authenticate(user, password, database, proto, enableFileTransfer) ==
    /\ pc = "constructed"
    /\ authArgs' = [user |-> user, password |-> password, database |-> database,
                    proto |-> proto, enableFileTransfer |-> enableFileTransfer]
    /\ IF proto \notin challenge.protocols
       THEN /\ pc' = "auth_failed"
            /\ err' = [NoErr EXCEPT !.kind = UnsupportedProtocol]
            /\ response' = response
       ELSE /\ pc' = "authenticated"
            /\ err' = err
            /\ response' = AuthenticateResponse(challenge, user, password, database,
                                                proto, enableFileTransfer)
    /\ UNCHANGED <<accu, argv, errno, i, expectArgValue, lastArg, line>>
    /\ UNCHANGED columnVars
    /\ UNCHANGED <<msg, pos, start, field, challenge>>

(***************************************************************************)
(* The challenge lines received and the calls of Authenticate.  A line is  *)
(* made of a salt, a backend, a version, a list of protocols, an           *)
(* endianness and a password hash algorithm, joined by ":", and an end;    *)
(* the lines cut after fewer fields are received as well.                  *)
(***************************************************************************)
Salts == {<<"a", "b", "c", "d", "e", "f">>, <<"a", "b", "c", "d", "e">>}
BackendTexts == {Mserver, Merovingian, <<"x">>}
VersionTexts ==
    {<<"9">>, <<>>, <<"9", "x">>, <<"-", "9">>,
     <<"3", "0", "0", "0", "0", "0", "0", "0", "0", "0">>}
ProtocolTexts ==
    {SHA1, SHA1 \o <<",">> \o SHA256, SHA256 \o <<",">> \o SHA512, <<>>,
     SHA1 \o <<",">>}
EndiannessTexts == {LIT, <<"B", "I", "G">>}
AlgoTexts == {SHA512, <<>>, <<"S", "H", "A", ",", "5", "1", "2">>}
Ends == {<<":", LF>>, <<":">>, <<LF>>, <<>>}

\* the first n fields of a line, each followed by ":"
RECURSIVE Joined(_, _)
Joined(fields, n) ==
    IF n = 0 THEN <<>> ELSE Joined(fields, n - 1) \o fields[n] \o <<":">>

FullLines ==
    {Joined(<<s, b, v, p, e>>, 5) \o a \o z :
        s \in Salts, b \in BackendTexts, v \in VersionTexts, p \in ProtocolTexts,
        e \in EndiannessTexts, a \in AlgoTexts, z \in Ends}

\* the line of a MonetDB server
GoodLine ==
    Joined(<<<<"a", "b", "c", "d", "e", "f">>, Mserver, <<"9">>,
             SHA1 \o <<",">> \o SHA256, LIT>>, 5) \o SHA512 \o <<":", LF>>

\* the line of a MonetDB server cut after any number of bytes
CutLines == {SubSeq(GoodLine, 1, n) : n \in 0..Len(GoodLine)}

Users == {<<"u">>}
Passwords == {<<"p", "w">>}
Databases == {<<"d", "b">>, <<>>}
Protos == {SHA1, SHA256, SHA512, <<"M", "D", "5">>}

\* a challenge line was received; the error indicator holds whatever the
\* calls before left in it
InitChallenge ==
    /\ pc = "received"
    /\ accu = NewAccumulator
    /\ argv = ArgvOf(<<>>)
    /\ errno \in ErrnoValues
    /\ i = 0
    /\ expectArgValue = FALSE
    /\ lastArg = EmptyArg
    /\ line = <<>>
    /\ err = NoErr
    /\ NoColumnFormat
    /\ \/ msg \in FullLines
       \/ msg \in CutLines
    /\ pos = 0
    /\ start = 0
    /\ field = 0
    /\ challenge = NewChallenge
    /\ authArgs = NoAuthenticate
    /\ response = <<>>

AuthenticateCall ==
    \E user \in Users, password \in Passwords, database \in Databases,
       proto \in Protos, enableFileTransfer \in BOOLEAN :
        Authenticate(user, password, database, proto, enableFileTransfer)

NextChallenge ==
    \/ ServerChallengeBegin
    \/ ServerChallengeByte
    \/ ServerChallengeEnd
    \/ AuthenticateCall

SpecChallenge == InitChallenge /\ [][NextChallenge]_vars

(***************************************************************************)
(* The challenge the constructor accepts.                                  *)
(***************************************************************************)
\* the constructor returned
Constructed == pc \in {"constructed", "authenticated", "auth_failed"}

\* C39: a challenge whose constructor returned is complete and valid: the
\* salt has at least 6 bytes, the backend is merovingian, monetdb or
\* mserver, the version is a whole number (an int), there is a protocol and
\* no protocol is the empty name, the endianness is LIT, the password hash
\* algorithm is not empty, and the line had the five ":" that separate six
\* fields.
C39_ChallengeIsValid ==
    Constructed =>
        /\ Len(challenge.salt) >= 6
        /\ challenge.backend \in {Merovingian, Monetdb, Mserver}
        /\ challenge.version \in (-2147483647 - 1)..2147483647
        /\ challenge.protocols # {}
        /\ \A proto \in challenge.protocols : Len(proto) >= 1
        /\ challenge.endianness = LIT
        /\ Len(challenge.passwordHashAlgo) >= 1
        /\ Count(msg, ":") >= 5

(***************************************************************************)
(* The response of Authenticate.                                           *)
(***************************************************************************)
\* "<endianness>:<user>:{<proto>}", the start of the response
ResponseHead(c, a) ==
    c.endianness \o <<":">> \o a.user \o <<":", "{">> \o a.proto \o <<"}">>

\* ":sql:<database>:", FILETRANS if file transfer is enabled, and the end of
\* the line
ResponseTail(a) ==
    <<":", "s", "q", "l", ":">> \o a.database \o <<":">>
        \o (IF a.enableFileTransfer
            THEN <<"F", "I", "L", "E", "T", "R", "A", "N", "S">> ELSE <<>>)
        \o <<LF>>

\* C40: a call of Authenticate raises when the chosen protocol is not among
\* the protocols of the challenge; otherwise it returns a response that
\* starts with the endianness, the user and the chosen protocol in braces,
\* goes on with a hash and ends with ":sql:", the database, ":", FILETRANS
\* exactly when file transfer is enabled, and a newline.
C40_ResponseOfChosenProtocol ==
    [][(pc = "constructed" /\ pc' # "constructed") =>
          IF authArgs'.proto \notin challenge.protocols
          THEN pc' = "auth_failed" /\ response' = response
          ELSE /\ pc' = "authenticated"
               /\ Len(response') > Len(ResponseHead(challenge, authArgs'))
                                       + Len(ResponseTail(authArgs'))
               /\ SubSeq(response', 1, Len(ResponseHead(challenge, authArgs')))
                      = ResponseHead(challenge, authArgs')
               /\ SubSeq(response',
                         Len(response') - Len(ResponseTail(authArgs')) + 1,
                         Len(response'))
                      = ResponseTail(authArgs')]_vars

====
